---- MODULE Spec2Model ----
(***************************************************************************)
(* A model of the Aurora Studio SDK client (marceldupr/aurora-sdk).        *)
(*                                                                         *)
(* The repository holds three generations of one client class:            *)
(*   - the tenant-slug client   (src/src/index.test.ts 880-1215),          *)
(*   - the discovery client     (src/src/index.ts),                        *)
(*   - the spec-driven client   (src/src/index.test.ts 224-878), which is  *)
(*     the discovery client plus getSpec/request/auth.                     *)
(* Spec runs the spec-driven client, SpecTenant the tenant-slug client.    *)
(* Calls are asynchronous: a call slot runs one operation at a time, and   *)
(* in both specifications one caller awaits each call before the next.    *)
(* SpecQuery (query mappings), SpecTransport (request bodies) and SpecUrls *)
(* (slashes in baseUrl and paths) run the same client on more inputs and   *)
(* fewer operations.  SpecConc runs calls that overlap; SpecLive adds the  *)
(* fairness of a network that answers every request.                       *)
(*                                                                         *)
(* Strings that the code inspects character by character (URLs, paths,     *)
(* slugs, query values) are sequences of tokens: the token "/" is the      *)
(* slash, " " the blank, and every other token stands for a run of         *)
(* characters that need no escaping and contain no slash at either end.    *)
(* Strings that the code only concatenates (error messages, response       *)
(* bodies) are TLA+ strings.                                                *)
(***************************************************************************)
EXTENDS Integers, Sequences, FiniteSets, TLC

\* ------------------------------------------------------------------ bounds
\* Number of call slots of a client.  Spec and SpecTenant model one caller
\* that awaits each call, which keeps its calls in slot 1.
NumCalls == 2
\* Total number of operations invoked on the client in one behaviour.
MaxOps == 3
\* Largest number of entries of a query mapping passed to buildQuery.
MaxParams == 2
\* Largest number of "/" a caller puts at the end of baseUrl or in front
\* of a path.
MaxSlashes == 2

Calls == 1..NumCalls

\* ------------------------------------------------------------- JS values
Undefined == [t |-> "undefined"]
JsNull == [t |-> "null"]
Str(s) == [t |-> "str", s |-> s]
Num(n) == [t |-> "num", n |-> n]
Bool(b) == [t |-> "bool", b |-> b]

\* String(v) of a query scalar, as a token sequence.
JsStringTokens(v) ==
  CASE v.t = "str" -> v.s
    [] v.t = "num" -> <<ToString(v.n)>>
    [] v.t = "bool" -> <<IF v.b THEN "true" ELSE "false">>
    [] OTHER -> <<"undefined">>

\* `${v}` of a parsed JSON value inside a template literal.
JsTemplate(v) ==
  CASE v.t = "str" -> v.s
    [] v.t = "num" -> ToString(v.n)
    [] v.t = "bool" -> (IF v.b THEN "true" ELSE "false")
    [] v.t = "null" -> "null"
    [] v.t = "object" -> "[object Object]"
    [] OTHER -> "undefined"

\* a ?? b
Nullish(v) == v.t \in {"undefined", "null"}

\* -------------------------------------------------------- string helpers
\* s.replace(/\/$/, ""): drops ONE trailing slash, if there is one.
StripTrailingSlash(s) ==
  IF Len(s) > 0 /\ s[Len(s)] = "/" THEN SubSeq(s, 1, Len(s) - 1) ELSE s

\* path.startsWith("/")
StartsWithSlash(s) == Len(s) > 0 /\ s[1] = "/"

\* Percent-encoding of one token by encodeURIComponent.
EncodeComponentToken(ch) ==
  CASE ch = "/" -> "%2F"
    [] ch = " " -> "%20"
    [] ch = "?" -> "%3F"
    [] ch = "&" -> "%26"
    [] ch = "=" -> "%3D"
    [] OTHER -> ch

encodeURIComponent(s) == [i \in 1..Len(s) |-> EncodeComponentToken(s[i])]

\* application/x-www-form-urlencoded serialisation of one token, as done by
\* URLSearchParams.toString(): the blank becomes "+".
EncodeFormToken(ch) ==
  CASE ch = "/" -> "%2F"
    [] ch = " " -> "+"
    [] ch = "?" -> "%3F"
    [] ch = "&" -> "%26"
    [] ch = "=" -> "%3D"
    [] OTHER -> ch

EncodeForm(s) == [i \in 1..Len(s) |-> EncodeFormToken(s[i])]

\* A filter that keeps the truthy values only.
KeepsTruthyParam(v) ==
  /\ v.t # "undefined"
  /\ ~(v.t = "str" /\ v.s = <<>>)
  /\ ~(v.t = "num" /\ v.n = 0)
  /\ ~(v.t = "bool" /\ ~v.b)

\* The entries buildQuery keeps: v !== undefined && v !== "".
KeepsParam(v) == v.t # "undefined" /\ ~(v.t = "str" /\ v.s = <<>>)

RECURSIVE JoinPairs(_)
JoinPairs(ps) ==
  IF ps = <<>> THEN <<>>
  ELSE LET p == ps[1]
           one == EncodeForm(p.k) \o <<"=">> \o EncodeForm(JsStringTokens(p.v))
       IN IF Len(ps) = 1 THEN one ELSE one \o <<"&">> \o JoinPairs(Tail(ps))

\* The canonical texts of the array indices 0..20, the integer-like keys
\* the model tells apart from names.
IndexTexts ==
  <<"0", "1", "2", "3", "4", "5", "6", "7", "8", "9", "10",
    "11", "12", "13", "14", "15", "16", "17", "18", "19", "20">>

\* The array index a property key is the canonical text of, -1 for every
\* other key.
KeyIndex(k) ==
  IF Len(k) = 1 /\ \E i \in 1..Len(IndexTexts) : IndexTexts[i] = k[1]
  THEN (CHOOSE i \in 1..Len(IndexTexts) : IndexTexts[i] = k[1]) - 1
  ELSE -1
IsIndexKey(k) == KeyIndex(k) >= 0

RECURSIVE AscendingIndex(_)
AscendingIndex(ps) ==
  IF ps = <<>> THEN <<>>
  ELSE LET m == CHOOSE i \in 1..Len(ps) :
                  \A j \in 1..Len(ps) : KeyIndex(ps[i].k) <= KeyIndex(ps[j].k)
       IN <<ps[m]>> \o AscendingIndex(SubSeq(ps, 1, m - 1) \o SubSeq(ps, m + 1, Len(ps)))

\* An object that takes the entries of the list as they are written.
ObjectEntriesAsWritten(params) == params

\* Object.entries(params) of the object whose properties were added in the
\* order of the list params: the array-index keys first, in ascending numeric
\* order, then the other keys in the order they were added.
ObjectEntries(params) ==
  AscendingIndex(SelectSeq(params, LAMBDA p : IsIndexKey(p.k)))
    \o SelectSeq(params, LAMBDA p : ~IsIndexKey(p.k))

\* buildQuery(params): params is the object's properties in insertion order
\* (keys of an object are unique), or NoParams when the argument is absent.
NoParams == <<>>
buildQuery(params) ==
  LET kept == SelectSeq(ObjectEntries(params), LAMBDA p : KeepsParam(p.v))
  IN IF kept = <<>> THEN <<>> ELSE <<"?">> \o JoinPairs(kept)

\* ------------------------------------------------------------ JSON values
JsonStr(s) == [t |-> "str", s |-> s]
\* An object, as the function from its field names to their values.
Obj(f) == [t |-> "object", f |-> f]
EmptyObj == Obj(<<>>)

\* j?.error
ErrorField(j) ==
  IF j.t = "object" /\ "error" \in DOMAIN j.f THEN j.f["error"] ELSE Undefined

\* JSON.parse of the response bodies the modelled server sends with a
\* non-success status; [ok |-> FALSE] is the SyntaxError.
JSONParse(text) ==
  CASE text = "{\"error\":\"Invalid API key\"}" ->
         [ok |-> TRUE, v |-> Obj([n \in {"error"} |-> JsonStr("Invalid API key")])]
    [] text = "{\"error\":null}" ->
         [ok |-> TRUE, v |-> Obj([n \in {"error"} |-> JsNull])]
    [] text = "{\"error\":\"\"}" ->
         [ok |-> TRUE, v |-> Obj([n \in {"error"} |-> JsonStr("")])]
    [] text = "{\"message\":\"nope\"}" ->
         [ok |-> TRUE, v |-> Obj([n \in {"message"} |-> JsonStr("nope")])]
    [] text = "null" -> [ok |-> TRUE, v |-> JsNull]
    [] OTHER -> [ok |-> FALSE, v |-> Undefined]

\* ------------------------------------------------------------- responses
\* What fetch() settles with.  kind "net" is a rejected fetch (no response).
NetError == [kind |-> "net", ok |-> FALSE, status |-> 0, statusText |-> "", text |-> "fetch failed"]
OkResponse(status) ==
  [kind |-> "http", ok |-> TRUE, status |-> status, statusText |-> "OK", text |-> "{}"]
ErrResponse(status, statusText, text) ==
  [kind |-> "http", ok |-> FALSE, status |-> status, statusText |-> statusText, text |-> text]

\* The non-success responses of the modelled server: every error body, each
\* with one status.
ErrResponses ==
  { ErrResponse(401, "Unauthorized", "{\"error\":\"Invalid API key\"}"),
    ErrResponse(400, "Bad Request", "{\"error\":null}"),
    ErrResponse(422, "Unprocessable Entity", "{\"error\":\"\"}"),
    ErrResponse(404, "Not Found", "{\"message\":\"nope\"}"),
    ErrResponse(503, "Service Unavailable", "null"),
    ErrResponse(500, "Internal Server Error", "Internal Server Error"),
    ErrResponse(502, "Bad Gateway", "") }

\* An error message that never looks into a JSON body.
ErrorMessageRawBody(status, statusText, errBody) ==
  "Aurora API " \o ToString(status) \o ": "
    \o (IF errBody # "" THEN errBody ELSE statusText)

\* An error message that never falls back to the status text.
ErrorMessageNoStatusText(status, statusText, errBody) ==
  LET p == JSONParse(errBody)
  IN "Aurora API " \o ToString(status) \o ": "
       \o (IF p.ok /\ ~Nullish(ErrorField(p.v)) THEN JsTemplate(ErrorField(p.v))
           ELSE errBody)

\* The message of the Error thrown for a non-success response
\* (request, lines 53-62).
ErrorMessage(status, statusText, errBody) ==
  LET p == JSONParse(errBody)
      msg == IF p.ok
             THEN (IF ~Nullish(ErrorField(p.v)) THEN JsTemplate(ErrorField(p.v))
                   ELSE errBody)
             ELSE (IF errBody # "" THEN errBody ELSE statusText)
  IN "Aurora API " \o ToString(status) \o ": " \o msg

\* notAvailable(feature): the message of the Error it throws.
notAvailable(feature) ==
  feature \o " is not available. This tenant may not have the relevant template installed. "
          \o "Check client.capabilities() to see what features are enabled."

\* requireTenant(undefined): the message of the Error it throws.
TenantRequiredMessage ==
  "tenantSlug is required for this API. Pass it in AuroraClientOptions."

\* ------------------------------------------------------------- transport
ApiKey == "aur_test_abc123"
NoBody == [sent |-> FALSE, v |-> Undefined]
\* body: JSON.stringify(v)
SentBody(v) == [sent |-> TRUE, v |-> v]

\* JS truthiness of a body value.
Truthy(v) ==
  CASE v.t \in {"undefined", "null"} -> FALSE
    [] v.t = "num" -> v.n # 0
    [] v.t = "bool" -> v.b
    [] v.t = "str" -> v.s # ""
    [] OTHER -> TRUE

NoHeaders == <<>>
DefaultHeaders(apiKey) ==
  [h \in {"Content-Type", "X-Api-Key"} |->
     IF h = "Content-Type" THEN "application/json" ELSE apiKey]

\* A merge in which the entries of a win.
SpreadKeepFirst(a, b) ==
  [h \in DOMAIN a \cup DOMAIN b |-> IF h \in DOMAIN a THEN a[h] ELSE b[h]]

\* { ...a, ...b }: the entries of b override those of a.
Spread(a, b) ==
  [h \in DOMAIN a \cup DOMAIN b |-> IF h \in DOMAIN b THEN b[h] ELSE a[h]]

\* The arguments of one fetch(url, init) call.
Fetch(method, url, headers, body) ==
  [method |-> method, url |-> url, headers |-> headers, body |-> body]

NoOpts == [body |-> Undefined, query |-> NoParams, headers |-> NoHeaders]

\* The fetch call of the module-level request(baseUrl, apiKey, method, path, opts).
request(base, apiKey, method, path, opts) ==
  Fetch(method,
        StripTrailingSlash(base) \o path \o buildQuery(opts.query),
        DefaultHeaders(apiKey),
        IF Truthy(opts.body) THEN SentBody(opts.body) ELSE NoBody)

\* ------------------------------------------------------------ server data
Origin == <<"https:", "/", "/", "api.example.com">>
CapabilitiesPath == <<"/", "v1", "/", "capabilities">>
DefaultSpecPath == <<"/", "v1", "/", "openapi.json">>

Features == {"store", "site", "holmes"}
\* A Capabilities body: the flag of a feature is "true", "false" or "absent".
CapsBody(slug, store, site, holmes) ==
  [tenantSlug |-> slug,
   features |-> [f \in Features |->
                   IF f = "store" THEN store ELSE IF f = "site" THEN site ELSE holmes]]

\* The Capabilities bodies the modelled server answers GET /v1/capabilities with.
CapsBodies ==
  { CapsBody(<<"acme">>, "true", "true", "true"),
    CapsBody(<<"acme">>, "true", "false", "absent"),
    CapsBody(<<"b", "/", "c">>, "absent", "true", "false") }

NoCaps == [id |-> 0, tenantSlug |-> <<>>, features |-> [f \in Features |-> "absent"]]
\* The object res.json() yields for the n-th capabilities fetch: a new object
\* for every response, so the number of the fetch is its identity.
CapsObject(n, b) == [id |-> n, tenantSlug |-> b.tenantSlug, features |-> b.features]

\* The OpenAPI documents the modelled server answers the spec fetch with;
\* hasServers = FALSE is a document without a servers member.
SpecBody(hasServers, servers) == [hasServers |-> hasServers, servers |-> servers]
SpecBodies ==
  { SpecBody(TRUE, <<Origin \o <<"/", "v1">>>>),
    SpecBody(TRUE, <<<<"https:", "/", "/", "tenant.example.com", "/", "v2", "/">>,
                     Origin \o <<"/", "v1">>>>),
    SpecBody(TRUE, <<>>),
    SpecBody(TRUE, <<<<>>>>),
    SpecBody(FALSE, <<>>) }
NoSpec == [id |-> 0, hasServers |-> FALSE, servers |-> <<>>]
SpecObject(n, b) == [id |-> n, hasServers |-> b.hasServers, servers |-> b.servers]

\* The non-success responses the modelled server answers the spec fetch with.
SpecErrResponses ==
  { ErrResponse(401, "Unauthorized", "{\"error\":\"Invalid API key\"}"),
    ErrResponse(500, "Internal Server Error", "Internal Server Error") }

\* ------------------------------------------------------------ operations
\* One property of an object, key and value.
P(k, v) == [k |-> <<k>>, v |-> v]
SomeObject == Obj([n \in {"data"} |-> JsonStr("x")])

\* What a facade method fixes: the kind of operation, the HTTP method, the
\* path (V1: below baseUrl; guarded: the segment below the tenant; spec-driven
\* and bearer: below the resolved base), and the arguments it passes on.
Op(cls, method, path, query, body, feature, display) ==
  [cls |-> cls, method |-> method, path |-> path, query |-> query, body |-> body,
   headers |-> NoHeaders, token |-> "", feature |-> feature, display |-> display]

\* tables, views, reports, store.config, store.pages, provisionSchema.
V1Ops ==
  [n \in {"tables.list", "tables.records.list", "tables.records.get",
          "tables.records.create", "tables.records.update", "tables.records.delete",
          "tables.sectionViews.list", "views.list", "views.data", "reports.list",
          "reports.data", "store.config", "store.pages.list", "store.pages.get",
          "provisionSchema"} |->
     CASE n = "tables.list" ->
            Op("v1", "GET", <<"/", "v1", "/", "tables">>, NoParams, Undefined, "", "")
       [] n = "tables.records.list" ->
            Op("v1", "GET", <<"/", "v1", "/", "tables", "/", "products", "/", "records">>,
               <<P("limit", Num(10)), P("offset", Num(0))>>, Undefined, "", "")
       [] n = "tables.records.get" ->
            Op("v1", "GET",
               <<"/", "v1", "/", "tables", "/", "products", "/", "records", "/", "r1">>,
               NoParams, Undefined, "", "")
       [] n = "tables.records.create" ->
            Op("v1", "POST", <<"/", "v1", "/", "tables", "/", "products", "/", "records">>,
               NoParams, SomeObject, "", "")
       [] n = "tables.records.update" ->
            Op("v1", "PATCH",
               <<"/", "v1", "/", "tables", "/", "products", "/", "records", "/", "r1">>,
               NoParams, SomeObject, "", "")
       [] n = "tables.records.delete" ->
            Op("v1", "DELETE",
               <<"/", "v1", "/", "tables", "/", "products", "/", "records", "/", "r1">>,
               NoParams, Undefined, "", "")
       [] n = "tables.sectionViews.list" ->
            Op("v1", "GET", <<"/", "v1", "/", "tables", "/", "products", "/", "views">>,
               NoParams, Undefined, "", "")
       [] n = "views.list" ->
            Op("v1", "GET", <<"/", "v1", "/", "views">>, NoParams, Undefined, "", "")
       [] n = "views.data" ->
            Op("v1", "GET", <<"/", "v1", "/", "views", "/", "sales", "/", "data">>,
               NoParams, Undefined, "", "")
       [] n = "reports.list" ->
            Op("v1", "GET", <<"/", "v1", "/", "reports">>, NoParams, Undefined, "", "")
       [] n = "reports.data" ->
            Op("v1", "GET", <<"/", "v1", "/", "reports", "/", "rep1", "/", "data">>,
               NoParams, Undefined, "", "")
       [] n = "store.config" ->
            Op("v1", "GET", <<"/", "v1", "/", "store", "/", "config">>,
               NoParams, Undefined, "", "")
       [] n = "store.pages.list" ->
            Op("v1", "GET", <<"/", "v1", "/", "store", "/", "pages">>,
               NoParams, Undefined, "", "")
       [] n = "store.pages.get" ->
            Op("v1", "GET", <<"/", "v1", "/", "store", "/", "pages", "/", "home">>,
               NoParams, Undefined, "", "")
       [] OTHER ->
            Op("v1", "POST", <<"/", "v1", "/", "provision-schema">>,
               NoParams, SomeObject, "", "")]

\* The operations behind the capability gate (or, in the tenant-slug client,
\* behind requireTenant), with the arguments of the repository's tests.
GuardedOps ==
  [n \in {"store.deliverySlots", "store.checkout.sessions.create",
          "store.checkout.acme.get", "store.checkout.acme.complete",
          "site.search", "site.stores", "holmes.infer"} |->
     CASE n = "store.deliverySlots" ->
            Op("guarded", "GET", <<"/", "store", "/", "delivery-slots">>,
               <<P("lat", Str(<<"51.5">>)), P("lng", Str(<<"-0.1">>))>>, Undefined,
               "store", "Store")
       [] n = "store.checkout.sessions.create" ->
            Op("guarded", "POST", <<"/", "store", "/", "checkout", "/", "sessions">>,
               NoParams, SomeObject, "store", "Store")
       [] n = "store.checkout.acme.get" ->
            Op("guarded", "GET", <<"/", "store", "/", "checkout", "/", "acme">>,
               <<P("session", Str(<<"acme_abc">>))>>, Undefined, "store", "Store")
       [] n = "store.checkout.acme.complete" ->
            Op("guarded", "POST",
               <<"/", "store", "/", "checkout", "/", "acme", "/", "complete">>,
               NoParams, SomeObject, "store", "Store")
       [] n = "site.search" ->
            Op("guarded", "GET", <<"/", "site", "/", "search">>,
               <<P("q", Str(<<"milk">>)), P("limit", Num(20))>>, Undefined,
               "site", "Site search")
       [] n = "site.stores" ->
            Op("guarded", "GET", <<"/", "site", "/", "stores">>, NoParams, Undefined,
               "site", "Site stores")
       [] OTHER ->
            Op("guarded", "GET", <<"/", "holmes", "/", "infer">>,
               <<P("sid", Str(<<"session_xyz">>))>>, Undefined, "holmes", "Holmes")]

CapabilitiesOp == Op("caps", "GET", CapabilitiesPath, NoParams, Undefined, "", "")
NoOp == Op("none", "", <<>>, NoParams, Undefined, "", "")

\* tenantPath(segment, slug)
tenantPath(segment, slug) ==
  <<"/", "api", "/", "tenants", "/">> \o encodeURIComponent(slug) \o segment

\* ------------------------------------------------------------------ state
VARIABLES
  baseUrl,       \* this.baseUrl
  tenantSlug,    \* this.tenantSlug of the tenant-slug client (<<>> = undefined)
  specUrl,       \* this.specUrl
  caps,          \* this.caps (NoCaps = null)
  specPromise,   \* this.specPromise
  pc,            \* per call: "idle", "awaitCaps", "haveCaps", "awaitSpec", "awaitMain", "done"
  opn,           \* per call: the name of the operation it runs
  opd,           \* per call: what the operation fixes (see Op)
  log,           \* per call: the fetch calls it issued, each with its response
  capsOf,        \* per call: the local `caps` of a guarded operation
  outcome,       \* per call: how the returned promise settled (or the throw)
  nOps,          \* operations invoked so far
  capsFetches,   \* GET /v1/capabilities issued so far
  specFetches    \* spec fetches issued so far

vars == <<baseUrl, tenantSlug, specUrl, caps, specPromise, pc, opn, opd, log,
          capsOf, outcome, nOps, capsFetches, specFetches>>
config == <<baseUrl, tenantSlug, specUrl>>

Pending == [kind |-> "pending", ok |-> FALSE, status |-> 0, statusText |-> "", text |-> ""]
\* One fetch call of a call slot: kind says which ("caps", "spec", "main"),
\* n numbers the capabilities and spec fetches of the client.
Entry(kind, n, call, resp) == [kind |-> kind, n |-> n, call |-> call, resp |-> resp]

NoOutcome == [kind |-> "none", caps |-> NoCaps, spec |-> NoSpec, msg |-> ""]
\* The promise is fulfilled: with a Capabilities object, a spec document, or
\* (both absent) the parsed JSON of the response.
Value(c, d) == [kind |-> "value", caps |-> c, spec |-> d, msg |-> ""]
\* The promise is fulfilled with undefined (HTTP 204).
UndefinedValue == [kind |-> "undefined", caps |-> NoCaps, spec |-> NoSpec, msg |-> ""]
\* The promise is rejected with an Error of this message.
Rejected(msg) == [kind |-> "error", caps |-> NoCaps, spec |-> NoSpec, msg |-> msg]
\* The call itself throws, before any promise exists.
Thrown(msg) == [kind |-> "throw", caps |-> NoCaps, spec |-> NoSpec, msg |-> msg]

\* this.specPromise: null ("none"), or the promise of the n-th spec fetch,
\* "pending", "fulfilled" with a document or "rejected" with an Error.
NoPromise == [state |-> "none", n |-> 0, doc |-> NoSpec, msg |-> ""]
PendingPromise(n) == [state |-> "pending", n |-> n, doc |-> NoSpec, msg |-> ""]
Fulfilled(n, doc) == [state |-> "fulfilled", n |-> n, doc |-> doc, msg |-> ""]
RejectedPromise(n, msg) == [state |-> "rejected", n |-> n, doc |-> NoSpec, msg |-> msg]

\* new AuroraClient({ baseUrl, apiKey }): the constructor arguments tried.
BaseUrlOptions == { Origin, Origin \o <<"/">> }

\* constructor: this.baseUrl = options.baseUrl.replace(/\/$/, "")
StoredBaseUrl(option) == StripTrailingSlash(option)
\* constructor: this.specUrl = options.specUrl ?? `${this.baseUrl}/v1/openapi.json`
StoredSpecUrl(base) == base \o DefaultSpecPath

IdleCalls ==
  /\ pc = [c \in Calls |-> "idle"]
  /\ opn = [c \in Calls |-> "none"]
  /\ opd = [c \in Calls |-> NoOp]
  /\ log = [c \in Calls |-> <<>>]
  /\ capsOf = [c \in Calls |-> NoCaps]
  /\ outcome = [c \in Calls |-> NoOutcome]
  /\ nOps = 0
  /\ capsFetches = 0
  /\ specFetches = 0

\* The discovery / spec-driven client after construction.
Init ==
  /\ \E b \in BaseUrlOptions :
       /\ baseUrl = StoredBaseUrl(b)
       /\ specUrl = StoredSpecUrl(StoredBaseUrl(b))
  /\ tenantSlug = <<>>
  /\ caps = NoCaps
  /\ specPromise = NoPromise
  /\ IdleCalls

\* this.req(method, path, opts)
req(method, path, opts) == request(baseUrl, ApiKey, method, path, opts)

OptsOf(d) == [body |-> d.body, query |-> d.query, headers |-> d.headers]

\* A call slot can take a new operation when it runs none.
Free(c) == pc[c] \in {"idle", "done"} /\ nOps < MaxOps

\* The per-call variables are the caller's view of its call.  Of the
\* finished calls only the latest stays in view: when a call finishes, the
\* slots of the calls that finished before it are wiped.
Put(f, c, v, p, empty) ==
  [x \in Calls |-> IF x = c THEN v
                   ELSE IF p = "done" /\ pc[x] = "done" THEN empty ELSE f[x]]

\* The call slot c starts operation n (descriptor d) in state p with fetches l.
Start(c, n, d, p, l, co, o) ==
  /\ pc' = Put(pc, c, p, p, "idle")
  /\ opn' = Put(opn, c, n, p, "none")
  /\ opd' = Put(opd, c, d, p, NoOp)
  /\ log' = Put(log, c, l, p, <<>>)
  /\ capsOf' = Put(capsOf, c, co, p, NoCaps)
  /\ outcome' = Put(outcome, c, o, p, NoOutcome)
  /\ nOps' = nOps + 1

\* The call slot c goes on to state p with fetches l.
Continue(c, p, l, co, o) ==
  /\ pc' = Put(pc, c, p, p, "idle")
  /\ opn' = Put(opn, c, opn[c], p, "none")
  /\ opd' = Put(opd, c, opd[c], p, NoOp)
  /\ log' = Put(log, c, l, p, <<>>)
  /\ capsOf' = Put(capsOf, c, co, p, NoCaps)
  /\ outcome' = Put(outcome, c, o, p, NoOutcome)
  /\ UNCHANGED nOps

\* capabilities() without its cache check.
CapsCachedNever == FALSE

\* `if (this.caps) return this.caps`
CapsCached == caps # NoCaps

\* A capabilities() that joins the fetch already issued, if there is one.
CapsFetchJoined ==
  Entry("caps", IF capsFetches > 0 THEN capsFetches ELSE 1,
        req("GET", CapabilitiesPath, NoOpts), Pending)

\* The fetch of this.req("GET", "/v1/capabilities").
CapsFetch == Entry("caps", capsFetches + 1, req("GET", CapabilitiesPath, NoOpts), Pending)

\* A capabilities() that clears the spec cell.
CapabilitiesClearingSpec(c) ==
  /\ Free(c)
  /\ IF CapsCached
     THEN /\ Start(c, "capabilities", CapabilitiesOp, "done", <<>>, caps, Value(caps, NoSpec))
          /\ UNCHANGED capsFetches
     ELSE /\ Start(c, "capabilities", CapabilitiesOp, "awaitCaps", <<CapsFetch>>, NoCaps, NoOutcome)
          /\ capsFetches' = capsFetches + 1
  /\ specPromise' = NoPromise
  /\ UNCHANGED <<config, caps, specFetches>>

\* capabilities(): the cached object, or one GET /v1/capabilities.
Capabilities(c) ==
  /\ Free(c)
  /\ IF CapsCached
     THEN /\ Start(c, "capabilities", CapabilitiesOp, "done", <<>>, caps, Value(caps, NoSpec))
          /\ UNCHANGED capsFetches
     ELSE /\ Start(c, "capabilities", CapabilitiesOp, "awaitCaps", <<CapsFetch>>, NoCaps, NoOutcome)
          /\ capsFetches' = capsFetches + 1
  /\ UNCHANGED <<config, caps, specPromise, specFetches>>

\* A gate that lets every call through.
GateAlwaysOpen(d, co) == TRUE

\* A guarded request that addresses the tenant of the test fixtures.
GuardedFetchFixedSlug(d, co) ==
  Entry("main", 0, req(d.method, tenantPath(d.path, <<"acme">>), OptsOf(d)), Pending)

\* The rest of a guarded operation once `caps` is known:
\*   if (!caps.features.X) notAvailable(display);
\*   return this.req(method, this.tenantPath(segment, caps.tenantSlug), opts)
GateOpen(d, co) == co.features[d.feature] = "true"
GuardedFetch(d, co) ==
  Entry("main", 0, req(d.method, tenantPath(d.path, co.tenantSlug), OptsOf(d)), Pending)

\* A guarded operation that fetches the capabilities on every call.
GuardedRefetching(c, n) ==
  /\ Free(c)
  /\ Start(c, n, GuardedOps[n], "awaitCaps", <<CapsFetch>>, NoCaps, NoOutcome)
  /\ capsFetches' = capsFetches + 1
  /\ UNCHANGED <<config, caps, specPromise, specFetches>>

\* A guarded site/store/holmes operation of the discovery client is called:
\*   const caps = await this.capabilities();
\* capabilities() runs up to its return or its fetch, then the operation
\* yields at the await; with the cache filled it holds the cached object.
Guarded(c, n) ==
  /\ Free(c)
  /\ LET d == GuardedOps[n] IN
     IF CapsCached
     THEN /\ Start(c, n, d, "haveCaps", <<>>, caps, NoOutcome)
          /\ UNCHANGED capsFetches
     ELSE /\ Start(c, n, d, "awaitCaps", <<CapsFetch>>, NoCaps, NoOutcome)
          /\ capsFetches' = capsFetches + 1
  /\ UNCHANGED <<config, caps, specPromise, specFetches>>

\* A V1 operation that fetches the capabilities before its request.
V1ThroughCapabilities(c, n) ==
  /\ Free(c)
  /\ LET d == V1Ops[n] IN
     Start(c, n, d, "awaitMain",
           <<[CapsFetch EXCEPT !.resp = OkResponse(200)],
             Entry("main", 0, req(d.method, d.path, OptsOf(d)), Pending)>>, NoCaps, NoOutcome)
  /\ capsFetches' = capsFetches + 1
  /\ UNCHANGED <<config, caps, specPromise, specFetches>>

\* An always-available V1 operation: one this.req(...).
V1(c, n) ==
  /\ Free(c)
  /\ LET d == V1Ops[n] IN
     Start(c, n, d, "awaitMain",
           <<Entry("main", 0, req(d.method, d.path, OptsOf(d)), Pending)>>, NoCaps, NoOutcome)
  /\ UNCHANGED <<config, caps, specPromise, capsFetches, specFetches>>

\* A request() that parses the body of every successful response.
SettleAlwaysParse(r) ==
  IF r.kind = "net" THEN Rejected(r.text)
  ELSE IF ~r.ok THEN Rejected(ErrorMessage(r.status, r.statusText, r.text))
  ELSE Value(NoCaps, NoSpec)

\* How request() settles for a response (lines 53-65), or for a rejected fetch.
Settle(r) ==
  IF r.kind = "net" THEN Rejected(r.text)
  ELSE IF ~r.ok THEN Rejected(ErrorMessage(r.status, r.statusText, r.text))
  ELSE IF r.status = 204 THEN UndefinedValue
  ELSE Value(NoCaps, NoSpec)

Answered(l, r) == [l EXCEPT ![Len(l)].resp = r]

\* What the server may answer an operation's own request with.
MainResponses == {OkResponse(200), OkResponse(204), NetError} \cup ErrResponses

\* A transport that sends a refused request once more.
AfterResponseRetryOnce(l, r) ==
  IF r.kind = "http" /\ ~r.ok /\ (\A i \in 1..(Len(l) - 1) : l[i].call # l[Len(l)].call)
  THEN [pc |-> "awaitMain",
        log |-> Append(Answered(l, r), [l[Len(l)] EXCEPT !.resp = Pending]),
        outcome |-> NoOutcome]
  ELSE [pc |-> "done", log |-> Answered(l, r), outcome |-> Settle(r)]

\* After the response nothing more is sent: request() returns or throws.
AfterResponse(l, r) == [pc |-> "done", log |-> Answered(l, r), outcome |-> Settle(r)]

\* The response to an operation's request arrives.
MainRespond(c, r) ==
  /\ pc[c] = "awaitMain"
  /\ LET a == AfterResponse(log[c], r) IN Continue(c, a.pc, a.log, capsOf[c], a.outcome)
  /\ UNCHANGED <<config, caps, specPromise, capsFetches, specFetches>>

\* A guarded operation that reports its feature as not available when the
\* capabilities could not be fetched.
CapsRespondFailureAsDisabled(c, r, b) ==
  /\ pc[c] = "awaitCaps"
  /\ LET l == Answered(log[c], r)
         co == CapsObject(log[c][Len(log[c])].n, b)
         d == opd[c]
     IN IF r.kind = "http" /\ r.ok
        THEN /\ caps' = co
             /\ IF d.cls = "caps"
                THEN Continue(c, "done", l, co, Value(co, NoSpec))
                ELSE Continue(c, "haveCaps", l, co, NoOutcome)
        ELSE /\ caps' = caps
             /\ Continue(c, "done", l, NoCaps,
                         IF d.cls = "caps" THEN Settle(r)
                         ELSE Rejected(notAvailable(d.display)))
  /\ UNCHANGED <<config, specPromise, capsFetches, specFetches>>

\* The response to GET /v1/capabilities arrives:
\*   this.caps = await this.req(...); return this.caps;
\* capabilities() settles; a guarded operation that awaits it resumes in a
\* later step (GuardedResume), a failure rejects it at once.
CapsRespond(c, r, b) ==
  /\ pc[c] = "awaitCaps"
  /\ LET l == Answered(log[c], r)
         co == CapsObject(log[c][Len(log[c])].n, b)
         d == opd[c]
     IN IF r.kind = "http" /\ r.ok
        THEN /\ caps' = co
             /\ IF d.cls = "caps"
                THEN Continue(c, "done", l, co, Value(co, NoSpec))
                ELSE Continue(c, "haveCaps", l, co, NoOutcome)
        ELSE /\ caps' = caps
             /\ Continue(c, "done", l, NoCaps, Settle(r))
  /\ UNCHANGED <<config, specPromise, capsFetches, specFetches>>

\* The guarded operation resumes after `await this.capabilities()` with the
\* object the await returned:
\*   if (!caps.features.X) notAvailable(display);
\*   return this.req(method, this.tenantPath(segment, caps.tenantSlug), opts)
GuardedResume(c) ==
  /\ pc[c] = "haveCaps"
  /\ LET d == opd[c]
         co == capsOf[c]
     IN IF GateOpen(d, co)
        THEN Continue(c, "awaitMain", Append(log[c], GuardedFetch(d, co)), co, NoOutcome)
        ELSE Continue(c, "done", log[c], co, Rejected(notAvailable(d.display)))
  /\ UNCHANGED <<config, caps, specPromise, capsFetches, specFetches>>

\* ------------------------------------------------- spec-driven operations
GetSpecOp == Op("getSpec", "GET", <<>>, NoParams, Undefined, "", "")

WithHeaders(d, h) == [d EXCEPT !.headers = h]
WithToken(d, t) == [d EXCEPT !.token = t]
Header(name, value) == [h \in {name} |-> value]

\* request, search, me, events.emit, webhooks.inbound, auth.signin,
\* auth.signup, auth.users: the argument lists tried for each.
SpecOps ==
  [n \in {"request", "search", "me", "events.emit", "webhooks.inbound",
          "auth.signin", "auth.signup", "auth.users"} |->
     CASE n = "request" ->
            { Op("spec", "GET", <<"/", "search">>, <<P("q", Str(<<"test">>))>>,
                 Undefined, "", ""),
              Op("spec", "GET", <<"tables">>, NoParams, Undefined, "", ""),
              WithHeaders(Op("spec", "GET", <<"/", "me">>, NoParams, Undefined, "", ""),
                          Header("X-Api-Key", "aur_other_key")),
              WithHeaders(Op("spec", "POST", <<"/", "events">>, NoParams, SomeObject, "", ""),
                          Header("Content-Type", "text/plain")) }
       [] n = "search" ->
            { Op("spec", "GET", <<"/", "search">>, <<P("q", Str(<<"x">>))>>,
                 Undefined, "", "") }
       [] n = "me" ->
            { Op("spec", "GET", <<"/", "me">>, NoParams, Undefined, "", ""),
              WithHeaders(Op("spec", "GET", <<"/", "me">>, NoParams, Undefined, "", ""),
                          Header("X-User-Id", "u1")) }
       [] n = "events.emit" ->
            { Op("spec", "POST", <<"/", "events">>, NoParams, SomeObject, "", "") }
       [] n = "webhooks.inbound" ->
            { WithHeaders(Op("spec", "POST", <<"/", "webhooks", "/", "inbound">>,
                             NoParams, SomeObject, "", ""),
                          Header("X-Webhook-Source", "stripe")) }
       [] n = "auth.signin" ->
            { Op("spec", "POST", <<"/", "auth", "/", "signin">>, NoParams, SomeObject, "", "") }
       [] n = "auth.signup" ->
            { Op("spec", "POST", <<"/", "auth", "/", "signup">>, NoParams, SomeObject, "", "") }
       [] OTHER ->
            { Op("spec", "GET", <<"/", "auth", "/", "users">>,
                 <<P("limit", Num(20)), P("offset", Num(0))>>, Undefined, "", "") }]

\* auth.session(accessToken), auth.signout(accessToken)
BearerOps ==
  [n \in {"auth.session", "auth.signout"} |->
     IF n = "auth.session"
     THEN { WithToken(Op("bearer", "GET", <<"/", "auth", "/", "session">>,
                         NoParams, Undefined, "", ""), t) : t \in {"tok_1", "tok_2"} }
     ELSE { WithToken(Op("bearer", "POST", <<"/", "auth", "/", "signout">>,
                         NoParams, Undefined, "", ""), "tok_1") }]

\* getSpec() without its cache check.
SpecCachedNever == FALSE

\* A getSpec() that stores the document only once the fetch completed.
SpecCachedWhenSettled == specPromise.state \in {"fulfilled", "rejected"}

\* `if (this.specPromise) return this.specPromise`
SpecCached == specPromise.state # "none"
SpecSettledNow == specPromise.state \in {"fulfilled", "rejected"}

\* A spec fetch that sends the bearer operation's request headers instead
\* of the API key.
SpecFetchWithoutKey ==
  Entry("spec", specFetches + 1,
        Fetch("GET", specUrl, Header("Content-Type", "application/json"), NoBody), Pending)

\* The fetch(this.specUrl, { headers }) inside getSpec().
SpecFetch ==
  Entry("spec", specFetches + 1, Fetch("GET", specUrl, DefaultHeaders(ApiKey), NoBody), Pending)

\* How a promise that awaits this.specPromise settles.
SpecOutcome(p) ==
  IF p.state = "fulfilled" THEN Value(NoCaps, p.doc) ELSE Rejected(p.msg)

\* A getV1Base that takes the last server of the list.
getV1BaseLastServer(p) ==
  IF p.state = "fulfilled" /\ p.doc.hasServers /\ Len(p.doc.servers) > 0
     /\ p.doc.servers[1] # <<>>
  THEN StripTrailingSlash(p.doc.servers[Len(p.doc.servers)])
  ELSE baseUrl \o <<"/", "v1">>

\* A getV1Base that falls back to baseUrl itself.
getV1BaseBare(p) ==
  IF p.state = "fulfilled" /\ p.doc.hasServers /\ Len(p.doc.servers) > 0
     /\ p.doc.servers[1] # <<>>
  THEN StripTrailingSlash(p.doc.servers[1])
  ELSE baseUrl

\* getV1Base(): the first server of the loaded spec without one trailing
\* slash, or baseUrl + "/v1" when getSpec() fails or names no server.
getV1Base(p) ==
  IF p.state = "fulfilled" /\ p.doc.hasServers /\ Len(p.doc.servers) > 0
     /\ p.doc.servers[1] # <<>>
  THEN StripTrailingSlash(p.doc.servers[1])
  ELSE baseUrl \o <<"/", "v1">>

\* `${path.startsWith("/") ? path : `/${path}`}`
WithLeadingSlash(path) == IF StartsWithSlash(path) THEN path ELSE <<"/">> \o path

\* body: opts?.body != null ? JSON.stringify(opts.body) : undefined
BodyUnlessNull(v) == IF Nullish(v) THEN NoBody ELSE SentBody(v)

\* The fetch of the client's request(method, path, opts) (lines 541-552).
clientRequest(base, d) ==
  Fetch(d.method, base \o WithLeadingSlash(d.path) \o buildQuery(d.query),
        Spread(DefaultHeaders(ApiKey), d.headers), BodyUnlessNull(d.body))

\* A bearer request that also sends the default headers.
requestWithBearerAndKey(base, d) ==
  Fetch(d.method, base \o WithLeadingSlash(d.path),
        Spread(DefaultHeaders(ApiKey), Header("Authorization", "Bearer " \o d.token)),
        BodyUnlessNull(d.body))

\* The fetch of requestWithBearer(method, path, accessToken) (lines 577-587).
requestWithBearer(base, d) ==
  Fetch(d.method, base \o WithLeadingSlash(d.path),
        [h \in {"Content-Type", "Authorization"} |->
           IF h = "Content-Type" THEN "application/json" ELSE "Bearer " \o d.token],
        BodyUnlessNull(d.body))

\* The request a spec-driven or bearer operation issues once the base is known.
SpecDrivenFetch(d, p) ==
  Entry("main", 0,
        IF d.cls = "bearer" THEN requestWithBearer(getV1Base(p), d)
        ELSE clientRequest(getV1Base(p), d),
        Pending)

\* A call of getSpec(), directly or through getV1Base(), by an operation d.
CallGetSpec(c, n, d) ==
  /\ Free(c)
  /\ IF ~SpecCached
     THEN /\ Start(c, n, d, "awaitSpec", <<SpecFetch>>, NoCaps, NoOutcome)
          /\ specPromise' = PendingPromise(specFetches + 1)
          /\ specFetches' = specFetches + 1
     ELSE /\ Start(c, n, d, "awaitSpec", <<>>, NoCaps, NoOutcome)
          /\ UNCHANGED <<specPromise, specFetches>>
  /\ UNCHANGED <<config, caps, capsFetches>>

\* getSpec()
GetSpec(c) == CallGetSpec(c, "getSpec", GetSpecOp)

\* request(), search(), me(), events.emit(), webhooks.inbound(), auth.signin(),
\* auth.signup(), auth.users(): await getV1Base(), then one fetch.
SpecDriven(c, n) == \E d \in SpecOps[n] : CallGetSpec(c, n, d)

\* auth.session(), auth.signout(): await getV1Base(), then one bearer fetch.
Bearer(c, n) == \E d \in BearerOps[n] : CallGetSpec(c, n, d)

\* The message of the Error getSpec() throws for a non-success response.
SpecLoadMessage(r) ==
  "Failed to load OpenAPI spec: " \o ToString(r.status) \o " " \o r.text

\* How the promise of the spec fetch settles for its response.
SpecSettle(n, r, b) ==
  IF r.kind = "net" THEN RejectedPromise(n, r.text)
  ELSE IF ~r.ok THEN RejectedPromise(n, SpecLoadMessage(r))
  ELSE Fulfilled(n, SpecObject(n, b))

\* The call that issued the pending spec fetch.
IssuedSpecFetch(c) ==
  /\ log[c] # <<>>
  /\ log[c][Len(log[c])].kind = "spec"
  /\ log[c][Len(log[c])].resp = Pending

\* The response to the spec fetch arrives and settles this.specPromise.
SpecRespond(r, b) ==
  /\ specPromise.state = "pending"
  /\ specPromise' = SpecSettle(specPromise.n, r, b)
  /\ log' = [c \in Calls |-> IF IssuedSpecFetch(c) THEN Answered(log[c], r) ELSE log[c]]
  /\ UNCHANGED <<config, caps, pc, opn, opd, capsOf, outcome, nOps, capsFetches,
                 specFetches>>

\* A spec cell that resumes only the call that issued the fetch.
SpecSettledOnlyIssuer(c) ==
  /\ pc[c] = "awaitSpec"
  /\ SpecSettledNow
  /\ log[c] # <<>>
  /\ IF opd[c].cls = "getSpec"
     THEN Continue(c, "done", log[c], NoCaps, SpecOutcome(specPromise))
     ELSE Continue(c, "awaitMain", Append(log[c], SpecDrivenFetch(opd[c], specPromise)),
                   NoCaps, NoOutcome)
  /\ UNCHANGED <<config, caps, specPromise, capsFetches, specFetches>>

\* A call that awaited this.specPromise goes on after it settled.
SpecSettled(c) ==
  /\ pc[c] = "awaitSpec"
  /\ SpecSettledNow
  /\ IF opd[c].cls = "getSpec"
     THEN Continue(c, "done", log[c], NoCaps, SpecOutcome(specPromise))
     ELSE Continue(c, "awaitMain", Append(log[c], SpecDrivenFetch(opd[c], specPromise)),
                   NoCaps, NoOutcome)
  /\ UNCHANGED <<config, caps, specPromise, capsFetches, specFetches>>

\* ------------------------------------------------------------ the client
\* One caller that awaits every call before it makes the next: every
\* operation, every response of the modelled server.
Next ==
  \E c \in {1} :
    \/ Capabilities(c)
    \/ \E n \in DOMAIN GuardedOps : Guarded(c, n)
    \/ \E n \in DOMAIN V1Ops : V1(c, n)
    \/ GetSpec(c)
    \/ \E n \in DOMAIN SpecOps : SpecDriven(c, n)
    \/ \E n \in DOMAIN BearerOps : Bearer(c, n)
    \/ \E b \in CapsBodies : CapsRespond(c, OkResponse(200), b)
    \/ \E r \in ErrResponses \cup {NetError} : CapsRespond(c, r, NoCaps)
    \/ GuardedResume(c)
    \/ \E r \in MainResponses : MainRespond(c, r)
    \/ \E b \in SpecBodies : SpecRespond(OkResponse(200), b)
    \/ \E r \in SpecErrResponses \cup {NetError} : SpecRespond(r, NoSpec)
    \/ SpecSettled(c)

Spec == Init /\ [][Next]_vars

\* ------------------------------------------------- the tenant-slug client
\* new AuroraClient({ baseUrl, apiKey, tenantSlug }): the slugs tried; <<>> is
\* a client constructed without one.
TenantSlugOptions == { <<>>, <<"acme">>, <<"b", "/", "c">> }

InitTenant ==
  /\ \E b \in BaseUrlOptions : baseUrl = StoredBaseUrl(b)
  /\ tenantSlug \in TenantSlugOptions
  /\ specUrl = <<>>
  /\ caps = NoCaps
  /\ specPromise = NoPromise
  /\ IdleCalls

\* A requireTenant that accepts a missing slug.
requireTenantNever(slug) == TRUE

\* requireTenant(tenantSlug) returns: `if (!tenantSlug) throw ...` does not fire.
requireTenant(slug) == slug # <<>>

\* A tenantPath that puts the slug into the path as it is.
tenantSlugPathRaw(segment) ==
  <<"/", "api", "/", "tenants", "/">> \o tenantSlug \o segment

\* tenantPath(segment) of the tenant-slug client, once requireTenant returned.
tenantSlugPath(segment) ==
  <<"/", "api", "/", "tenants", "/">> \o encodeURIComponent(tenantSlug) \o segment

\* A site/store/holmes operation of the tenant-slug client:
\*   this.req(method, this.tenantPath(segment), opts)
\* The argument this.tenantPath(...) is evaluated first, and throws.
TenantScoped(c, n) ==
  /\ Free(c)
  /\ LET d == GuardedOps[n] IN
     IF requireTenant(tenantSlug)
     THEN Start(c, n, d, "awaitMain",
                <<Entry("main", 0, req(d.method, tenantSlugPath(d.path), OptsOf(d)), Pending)>>,
                NoCaps, NoOutcome)
     ELSE Start(c, n, d, "done", <<>>, NoCaps, Thrown(TenantRequiredMessage))
  /\ UNCHANGED <<config, caps, specPromise, capsFetches, specFetches>>

NextTenant ==
  \E c \in {1} :
    \/ \E n \in DOMAIN GuardedOps : TenantScoped(c, n)
    \/ \E n \in DOMAIN V1Ops \ {"provisionSchema"} : V1(c, n)
    \/ \E r \in MainResponses : MainRespond(c, r)

SpecTenant == InitTenant /\ [][NextTenant]_vars

\* ------------------------------------------------- overlapping calls
\* Callers that do not await each other: every call slot may start an
\* operation while others are in flight, and the responses arrive in any
\* order.  The operations are those that touch a cache, one of each kind,
\* and the server answers each capabilities fetch with either tenant.
ConcCapsBodies ==
  { CapsBody(<<"acme">>, "true", "true", "true"),
    CapsBody(<<"b", "/", "c">>, "absent", "true", "false") }

NextConc ==
  \E c \in Calls :
    \/ Capabilities(c)
    \/ Guarded(c, "site.search")
    \/ GetSpec(c)
    \/ SpecDriven(c, "search")
    \/ \E b \in ConcCapsBodies : CapsRespond(c, OkResponse(200), b)
    \/ CapsRespond(c, ErrResponse(503, "Service Unavailable", "null"), NoCaps)
    \/ GuardedResume(c)
    \/ MainRespond(c, OkResponse(200))
    \/ \E b \in {SpecBody(TRUE, <<Origin \o <<"/", "v1">>>>)} : SpecRespond(OkResponse(200), b)
    \/ SpecRespond(ErrResponse(500, "Internal Server Error", "Internal Server Error"), NoSpec)
    \/ SpecSettled(c)

SpecConc == Init /\ [][NextConc]_vars

\* ------------------------------------------------- buildQuery on its own
\* tables(slug).records.list(opts) hands its argument to buildQuery as it is
\* (`{ query: opts as QueryParams }`): the keys and the scalar values tried.
QueryKeys == {"limit", "sort", "2", "10"}
QueryValues ==
  { Undefined, Str(<<>>), Str(<<"a", " ", "&", "b">>), Num(0), Bool(FALSE) }

\* The values tried under a key: all of them under a name, two under an
\* array-index key.
QueryValuesOf(k) == IF IsIndexKey(<<k>>) THEN { Undefined, Num(0) } ELSE QueryValues

\* The mappings of at most MaxParams properties, as property lists in
\* insertion order; the keys of a mapping are distinct.
QueryMappings ==
  UNION { { ps \in [1..n -> { P(k, v) : k \in QueryKeys, v \in QueryValues }] :
              /\ \A i, j \in 1..n : i # j => ps[i].k # ps[j].k
              /\ \A i \in 1..n : ps[i].v \in QueryValuesOf(ps[i].k[1]) } : n \in 0..MaxParams }

\* tables("products").records.list(opts)
RecordsList(c, params) ==
  /\ Free(c)
  /\ LET d == [V1Ops["tables.records.list"] EXCEPT !.query = params] IN
     Start(c, "tables.records.list", d, "awaitMain",
           <<Entry("main", 0, req(d.method, d.path, OptsOf(d)), Pending)>>, NoCaps, NoOutcome)
  /\ UNCHANGED <<config, caps, specPromise, capsFetches, specFetches>>

NextQuery ==
  \E c \in {1} :
    \/ \E params \in QueryMappings : RecordsList(c, params)
    \/ MainRespond(c, OkResponse(200))

SpecQuery == Init /\ [][NextQuery]_vars

\* ------------------------------------------------- request bodies
\* The values a caller passes as the body: tables(slug).records.create(data)
\* hands data to the module-level request(), client.request(method, path,
\* { body }) hands it to the client's request().
BodyValues ==
  { Undefined, JsNull, Num(0), Num(1), Bool(FALSE), JsonStr(""), JsonStr("x"), SomeObject }

\* tables("products").records.create(data)
RecordsCreate(c, data) ==
  /\ Free(c)
  /\ LET d == [V1Ops["tables.records.create"] EXCEPT !.body = data] IN
     Start(c, "tables.records.create", d, "awaitMain",
           <<Entry("main", 0, req(d.method, d.path, OptsOf(d)), Pending)>>, NoCaps, NoOutcome)
  /\ UNCHANGED <<config, caps, specPromise, capsFetches, specFetches>>

\* client.request("POST", "/events", { body: data })
RequestWithBody(c, data) ==
  CallGetSpec(c, "request", Op("spec", "POST", <<"/", "events">>, NoParams, data, "", ""))

NextTransport ==
  \E c \in {1} :
    \/ \E data \in BodyValues : RecordsCreate(c, data)
    \/ \E data \in BodyValues : RequestWithBody(c, data)
    \/ \E b \in SpecBodies : SpecRespond(OkResponse(200), b)
    \/ \E r \in SpecErrResponses : SpecRespond(r, NoSpec)
    \/ SpecSettled(c)
    \/ \E r \in {OkResponse(200), OkResponse(204)} : MainRespond(c, r)

SpecTransport == Init /\ [][NextTransport]_vars

\* ------------------------------------------------- slashes in URLs
Slashes(n) == [i \in 1..n |-> "/"]

\* new AuroraClient({ baseUrl, apiKey }) with 0..MaxSlashes "/" at the end
\* of baseUrl.
AnyBaseUrl == { Origin \o Slashes(n) : n \in 0..MaxSlashes }

InitUrls ==
  /\ \E b \in AnyBaseUrl :
       /\ baseUrl = StoredBaseUrl(b)
       /\ specUrl = StoredSpecUrl(StoredBaseUrl(b))
  /\ tenantSlug = <<>>
  /\ caps = NoCaps
  /\ specPromise = NoPromise
  /\ IdleCalls

\* client.request("GET", path) with 0..MaxSlashes "/" in front of the path.
RequestPath(c, n) ==
  CallGetSpec(c, "request",
              Op("spec", "GET", Slashes(n) \o <<"search">>, NoParams, Undefined, "", ""))

NextUrls ==
  \E c \in {1} :
    \/ V1(c, "tables.list")
    \/ GetSpec(c)
    \/ \E n \in 0..MaxSlashes : RequestPath(c, n)
    \/ \E n \in DOMAIN BearerOps : Bearer(c, n)
    \/ \E b \in SpecBodies : SpecRespond(OkResponse(200), b)
    \/ \E r \in SpecErrResponses : SpecRespond(r, NoSpec)
    \/ SpecSettled(c)
    \/ \E r \in {OkResponse(200), ErrResponse(404, "Not Found", "{\"message\":\"nope\"}")} :
         MainRespond(c, r)

SpecUrls == InitUrls /\ [][NextUrls]_vars

\* ------------------------------------------------------------ progress
\* Overlapping calls on a network that answers every request, with a
\* response or a network error, and an event loop that resumes every
\* `await` whose promise settled.
LiveCapsBody == CapsBody(<<"acme">>, "true", "true", "true")
LiveSpecBody == SpecBody(TRUE, <<Origin \o <<"/", "v1">>>>)
LiveSpecError == ErrResponse(500, "Internal Server Error", "Internal Server Error")

Responded(c) ==
  \/ CapsRespond(c, OkResponse(200), LiveCapsBody)
  \/ CapsRespond(c, NetError, NoCaps)
  \/ MainRespond(c, OkResponse(200))
  \/ MainRespond(c, NetError)

SpecResponded ==
  \/ SpecRespond(OkResponse(200), LiveSpecBody)
  \/ SpecRespond(LiveSpecError, NoSpec)

NextLive ==
  \/ \E c \in Calls :
       \/ Guarded(c, "site.search")
       \/ SpecDriven(c, "search")
       \/ Responded(c)
       \/ GuardedResume(c)
       \/ SpecSettled(c)
  \/ SpecResponded

Fairness ==
  /\ WF_vars(SpecResponded)
  /\ \A c \in Calls :
       WF_vars(Responded(c)) /\ WF_vars(GuardedResume(c)) /\ WF_vars(SpecSettled(c))

SpecLive == Init /\ [][NextLive]_vars /\ Fairness

\* ================================================================ claims
Done(c) == pc[c] = "done"
Kinds(l) == [i \in 1..Len(l) |-> l[i].kind]

\* C1: with one caller that awaits each call, once the k-th GET
\* /v1/capabilities has succeeded no further one is issued (so exactly one in
\* total when the first call succeeds), and every later capabilities() call
\* issues no request and returns the very object the cache holds.
C1_CapabilitiesFetchedOnce ==
  /\ caps.id # 0 => capsFetches = caps.id
  /\ \A c \in Calls :
       Done(c) /\ opn[c] = "capabilities" /\ outcome[c].kind = "value" =>
         /\ outcome[c].caps = caps
         /\ outcome[c].caps.id = capsFetches
         /\ log[c] = <<>> \/ (Kinds(log[c]) = <<"caps">> /\ log[c][1].n = caps.id)

\* C1 witness: a second capabilities() call answered from the cache of the
\* first, successful one.
C1_Witness ==
  \E c \in Calls :
    /\ Done(c) /\ opn[c] = "capabilities" /\ log[c] = <<>>
    /\ outcome[c].kind = "value" /\ outcome[c].caps.id = 1
    /\ capsFetches = 1 /\ nOps >= 2

\* C2: a failed spec fetch is not cached: with one caller that awaits each
\* call, a getSpec() call that fails has issued a spec fetch of its own, and
\* so has every operation that finds the spec fetch failed.
C2_SpecFailureNotCached ==
  \A c \in Calls :
    /\ Done(c) /\ opn[c] = "getSpec" /\ outcome[c].kind = "error" =>
         Kinds(log[c]) = <<"spec">>
    /\ opd[c].cls \in {"getSpec", "spec", "bearer"} /\ specPromise.state = "rejected" =>
         log[c] # <<>> /\ log[c][1].kind = "spec"

\* C3: once the spec fetch has succeeded it is the only spec fetch of the
\* client, it was issued by the first operation that needs the spec, and
\* every getSpec() that returns a document returns the object of that fetch.
SpecUsers == {"getSpec", "spec", "bearer"}
C3_SpecFetchedOnce ==
  /\ specPromise.state = "fulfilled" => specFetches = 1 /\ specPromise.doc.id = 1
  /\ \A c \in Calls : opd[c].cls \in SpecUsers => specFetches >= 1
  /\ \A c \in Calls :
       Done(c) /\ opn[c] = "getSpec" /\ outcome[c].kind = "value" =>
         /\ outcome[c].spec = specPromise.doc
         /\ outcome[c].spec.id = 1

\* C3 witness: a getSpec() that issued no fetch returns the cached document
\* after an earlier operation loaded it.
C3_Witness ==
  \E c \in Calls :
    /\ Done(c) /\ opn[c] = "getSpec" /\ log[c] = <<>>
    /\ outcome[c].kind = "value" /\ outcome[c].spec.id = 1
    /\ specFetches = 1 /\ nOps >= 3

\* The display name notAvailable() is called with, per guarded operation.
FeatureName(n) ==
  CASE n \in {"store.deliverySlots", "store.checkout.sessions.create",
              "store.checkout.acme.get", "store.checkout.acme.complete"} -> "Store"
    [] n = "site.search" -> "Site search"
    [] n = "site.stores" -> "Site stores"
    [] OTHER -> "Holmes"

\* The feature flag a guarded operation depends on.
FeatureOf(n) ==
  CASE n \in {"store.deliverySlots", "store.checkout.sessions.create",
              "store.checkout.acme.get", "store.checkout.acme.complete"} -> "store"
    [] n \in {"site.search", "site.stores"} -> "site"
    [] OTHER -> "holmes"

IsGuarded(c) == opn[c] \in DOMAIN GuardedOps
GotCaps(c) == capsOf[c] # NoCaps
\* The operation holds its capabilities and has not yet resumed after
\* `await this.capabilities()`.
AtGate(c) == pc[c] = "haveCaps"
NotAvailableMessage(n) ==
  FeatureName(n) \o " is not available. This tenant may not have the "
    \o "relevant template installed. Check client.capabilities() to see "
    \o "what features are enabled."
CapabilitiesUrl == baseUrl \o <<"/", "v1", "/", "capabilities">>

\* C4: in the discovery client, a guarded operation that obtained
\* capabilities in which its feature is false or absent has failed with
\* "{Feature} is not available. ..." and has issued no request except, at
\* most, the one GET /v1/capabilities.
C4_DisabledFeatureBlocked ==
  \A c \in Calls :
    IsGuarded(c) /\ GotCaps(c) /\ capsOf[c].features[FeatureOf(opn[c])] # "true" =>
      /\ IF AtGate(c) THEN outcome[c].kind = "none"
         ELSE /\ Done(c)
              /\ outcome[c].kind = "error"
              /\ outcome[c].msg = NotAvailableMessage(opn[c])
      /\ \/ log[c] = <<>>
         \/ /\ Kinds(log[c]) = <<"caps">>
            /\ log[c][1].call.url = CapabilitiesUrl
            /\ log[c][1].call.method = "GET"

\* C4 witness: holmes.infer refused on a flag that is absent, and site.search
\* refused from the cache on a flag that is false.
C4_Witness ==
  \E c \in Calls :
    /\ Done(c) /\ opn[c] = "site.search" /\ log[c] = <<>>
    /\ capsOf[c].features["site"] = "false" /\ capsOf[c].features["holmes"] = "absent"
    /\ outcome[c].kind = "error"

\* The inverse of the percent-encoding of one token.
DecodeToken(ch) ==
  CASE ch = "%2F" -> "/"
    [] ch = "%20" -> " "
    [] ch = "%3F" -> "?"
    [] ch = "%26" -> "&"
    [] ch = "%3D" -> "="
    [] OTHER -> ch
Decode(s) == [i \in 1..Len(s) |-> DecodeToken(s[i])]
HasSlash(s) == \E i \in 1..Len(s) : s[i] = "/"

\* url is base + "/api/tenants/" + one path segment that encodes slug + rest.
IsTenantUrl(url, base, slug, rest) ==
  LET pre == base \o <<"/", "api", "/", "tenants", "/">>
      seg == SubSeq(url, Len(pre) + 1, Len(url) - Len(rest))
  IN /\ Len(url) > Len(pre) + Len(rest)
     /\ SubSeq(url, 1, Len(pre)) = pre
     /\ SubSeq(url, Len(url) - Len(rest) + 1, Len(url)) = rest
     /\ ~HasSlash(seg)
     /\ Decode(seg) = slug

\* C5: in the discovery client, a guarded operation issues its request only
\* once it holds capabilities with its feature enabled: the request is the one
\* request after the (at most one, successful) capabilities fetch, and it
\* addresses /api/tenants/{slug}/... with the slug of those capabilities.
C5_GuardedRequestAfterCapabilities ==
  \A c \in Calls :
    IsGuarded(c) =>
      /\ (\E i \in 1..Len(log[c]) : log[c][i].kind = "main") =>
           GotCaps(c) /\ capsOf[c].features[FeatureOf(opn[c])] = "true"
      /\ AtGate(c) => Kinds(log[c]) \in {<<>>, <<"caps">>}
      /\ GotCaps(c) /\ ~AtGate(c) /\ capsOf[c].features[FeatureOf(opn[c])] = "true" =>
           /\ \/ Kinds(log[c]) = <<"main">>
              \/ /\ Kinds(log[c]) = <<"caps", "main">>
                 /\ log[c][1].call.url = CapabilitiesUrl
                 /\ log[c][1].resp.ok
           /\ IsTenantUrl(log[c][Len(log[c])].call.url, baseUrl, capsOf[c].tenantSlug,
                          GuardedOps[opn[c]].path \o buildQuery(GuardedOps[opn[c]].query))

\* C5 witness: site.search fetched capabilities naming the tenant "b/c" and
\* then sent its request to /api/tenants/b%2Fc/site/search?q=milk&limit=20.
C5_Witness ==
  \E c \in Calls :
    /\ opn[c] = "site.search" /\ pc[c] = "awaitMain"
    /\ Kinds(log[c]) = <<"caps", "main">>
    /\ capsOf[c].tenantSlug = <<"b", "/", "c">>
    /\ log[c][2].call.url =
         baseUrl \o <<"/", "api", "/", "tenants", "/", "b", "%2F", "c", "/", "site", "/",
                      "search", "?", "q", "=", "milk", "&", "limit", "=", "20">>

\* C6: in the tenant-slug client constructed without a slug, every
\* tenant-scoped operation throws inside the call, with the message
\* "tenantSlug is required for this API. ...", and has issued no request.
C6_MissingSlugThrows ==
  \A c \in Calls :
    IsGuarded(c) /\ tenantSlug = <<>> =>
      /\ Done(c)
      /\ outcome[c].kind = "throw"
      /\ outcome[c].msg = "tenantSlug is required for this API. Pass it in AuroraClientOptions."
      /\ log[c] = <<>>

\* C6 witness: store.deliverySlots called on a client without a slug.
C6_Witness ==
  \E c \in Calls :
    /\ tenantSlug = <<>> /\ opn[c] = "store.deliverySlots"
    /\ outcome[c].kind = "throw" /\ log[c] = <<>>

\* C7: in the tenant-slug client constructed with a slug, a tenant-scoped
\* operation issues exactly one request, to
\* {base}/api/tenants/{slug}/{segment}{query} with X-Api-Key set to the
\* configured key, and no request of the client is a GET /v1/capabilities.
C7_TenantSlugDirectRequest ==
  /\ capsFetches = 0
  /\ \A c \in Calls : \A i \in 1..Len(log[c]) :
       log[c][i].kind = "main" /\ log[c][i].call.url # CapabilitiesUrl
  /\ \A c \in Calls :
       IsGuarded(c) /\ tenantSlug # <<>> =>
         /\ Kinds(log[c]) = <<"main">>
         /\ log[c][1].call.method = GuardedOps[opn[c]].method
         /\ "X-Api-Key" \in DOMAIN log[c][1].call.headers
         /\ log[c][1].call.headers["X-Api-Key"] = "aur_test_abc123"
         /\ IsTenantUrl(log[c][1].call.url, baseUrl, tenantSlug,
                        GuardedOps[opn[c]].path \o buildQuery(GuardedOps[opn[c]].query))

\* C7 witness: site.search({q: "milk", limit: 20}) with the slug "acme" has
\* sent GET {base}/api/tenants/acme/site/search?q=milk&limit=20 and was
\* answered, after an earlier tenant-scoped call.
C7_Witness ==
  \E c \in Calls :
    /\ tenantSlug = <<"acme">> /\ opn[c] = "site.search" /\ Done(c) /\ nOps >= 2
    /\ Len(log[c]) = 1
    /\ log[c][1].call.method = "GET"
    /\ log[c][1].call.url =
         <<"https:", "/", "/", "api.example.com", "/", "api", "/", "tenants", "/", "acme",
           "/", "site", "/", "search", "?", "q", "=", "milk", "&", "limit", "=", "20">>

\* The non-success responses a call received, by position in its log.
Refused(c) ==
  {i \in 1..Len(log[c]) : log[c][i].resp.kind = "http" /\ ~log[c][i].resp.ok}
\* Those received by request() / requestWithBearer(), not by the spec fetch.
RefusedByRequest(c) == {i \in Refused(c) : log[c][i].kind # "spec"}

JsonBodies ==
  {"{\"error\":\"Invalid API key\"}", "{\"error\":null}", "{\"error\":\"\"}",
   "{\"message\":\"nope\"}", "null"}

\* "Aurora API {s}: {m}" with m the error field if present, else the raw body.
MessageAsClaimed(r) ==
  "Aurora API " \o ToString(r.status) \o ": " \o
    (CASE r.text = "{\"error\":\"Invalid API key\"}" -> "Invalid API key"
       [] r.text = "{\"error\":null}" -> "null"
       [] r.text = "{\"error\":\"\"}" -> ""
       [] OTHER -> r.text)

\* "Aurora API {s}: {m}" with m the error field if present and not null,
\* else the raw body.
MessageAsAmended(r) ==
  "Aurora API " \o ToString(r.status) \o ": " \o
    (CASE r.text = "{\"error\":\"Invalid API key\"}" -> "Invalid API key"
       [] r.text = "{\"error\":\"\"}" -> ""
       [] OTHER -> r.text)

\* C8 as stated: every non-success response with a JSON body makes the
\* operation fail with "Aurora API {s}: {m}", m the error field if present,
\* else the raw body.
C8_Original ==
  \A c \in Calls : \A i \in Refused(c) :
    Done(c) /\ log[c][i].resp.text \in JsonBodies =>
      outcome[c].kind = "error" /\ outcome[c].msg = MessageAsClaimed(log[c][i].resp)

\* C8: every non-success response with a JSON body to a request sent by
\* request() or requestWithBearer() (any request but the spec fetch) makes the
\* operation fail with "Aurora API {s}: {m}", m the error field if it is
\* present and not null, else the raw body.
C8_JsonErrorMessage ==
  \A c \in Calls : \A i \in RefusedByRequest(c) :
    log[c][i].resp.text \in JsonBodies =>
      /\ Done(c)
      /\ outcome[c].kind = "error"
      /\ outcome[c].msg = MessageAsAmended(log[c][i].resp)
      /\ log[c][i].resp.status = 401 => outcome[c].msg = "Aurora API 401: Invalid API key"

\* C8 witness: a request answered 400 {"error":null} failed with the raw body.
C8_Witness ==
  \E c \in Calls :
    /\ Done(c) /\ log[c] # <<>> /\ log[c][Len(log[c])].kind = "main"
    /\ log[c][Len(log[c])].resp.text = "{\"error\":null}"
    /\ outcome[c].msg = "Aurora API 400: {\"error\":null}"

\* "Aurora API {s}: {m}" with m the raw body if non-empty, else the status text.
MessageForText(r) ==
  "Aurora API " \o ToString(r.status) \o ": " \o
    (IF r.text # "" THEN r.text ELSE r.statusText)

\* C9 as stated: every non-success response with a body that is not JSON
\* makes the operation fail with "Aurora API {s}: {m}", m the raw body if
\* non-empty, else the status text.
C9_Original ==
  \A c \in Calls : \A i \in Refused(c) :
    Done(c) /\ log[c][i].resp.text \notin JsonBodies =>
      outcome[c].kind = "error" /\ outcome[c].msg = MessageForText(log[c][i].resp)

\* C9: every non-success response with a body that is not JSON to a request
\* sent by request() or requestWithBearer() (any request but the spec fetch)
\* makes the operation fail with "Aurora API {s}: {m}", m the raw body if
\* non-empty, else the status text.
C9_TextErrorMessage ==
  \A c \in Calls : \A i \in RefusedByRequest(c) :
    log[c][i].resp.text \notin JsonBodies =>
      /\ Done(c)
      /\ outcome[c].kind = "error"
      /\ outcome[c].msg = MessageForText(log[c][i].resp)
      /\ log[c][i].resp.status = 500 =>
           outcome[c].msg = "Aurora API 500: Internal Server Error"

\* C9 witness: a request answered 502 with an empty body failed with the
\* status text.
C9_Witness ==
  \E c \in Calls :
    /\ Done(c) /\ log[c] # <<>> /\ log[c][Len(log[c])].resp.status = 502
    /\ log[c][Len(log[c])].resp.text = ""
    /\ outcome[c].msg = "Aurora API 502: Bad Gateway"

NoRequestTwice(c) ==
  \A i, j \in 1..Len(log[c]) : i # j => log[c][i].call # log[c][j].call

\* C10 as stated: after any request of an operation received a non-success
\* response the call issues no further request and fails, and no request is
\* sent twice.
C10_Original ==
  \A c \in Calls :
    /\ \A i \in Refused(c) :
         i = Len(log[c]) /\ (Done(c) => outcome[c].kind \in {"error", "throw"})
    /\ NoRequestTwice(c)

\* C10: after a request sent by request() or requestWithBearer() (any
\* request but the spec fetch) received a non-success response the call
\* issues no further request and fails, and no call sends a request twice.
C10_NoRetry ==
  \A c \in Calls :
    /\ \A i \in RefusedByRequest(c) :
         i = Len(log[c]) /\ Done(c) /\ outcome[c].kind = "error"
    /\ NoRequestTwice(c)

\* C10 witness: a guarded operation whose GET /v1/capabilities was refused
\* failed without sending its own request.
C10_Witness ==
  \E c \in Calls :
    /\ IsGuarded(c) /\ Done(c) /\ Kinds(log[c]) = <<"caps">>
    /\ log[c][1].resp.status = 503 /\ outcome[c].kind = "error"

\* The spec-driven and bearer operations.
UsesV1Base(c) == opd[c].cls \in {"spec", "bearer"}
LastOf(l) == l[Len(l)]
MainCount(l) == Cardinality({i \in 1..Len(l) : l[i].kind = "main"})
IsPrefix(a, b) == Len(a) <= Len(b) /\ SubSeq(b, 1, Len(a)) = a

\* The spec cell holds no usable server: the fetch failed, or the document
\* has no servers member, an empty list, or an empty first URL.
SpecUnusable ==
  \/ specPromise.state = "rejected"
  \/ /\ specPromise.state = "fulfilled"
     /\ \/ ~specPromise.doc.hasServers
        \/ specPromise.doc.servers = <<>>
        \/ specPromise.doc.servers[1] = <<>>

\* C11: whenever spec resolution yields no server (rejected fetch, no
\* servers member, empty list, empty first URL), a spec-driven or bearer
\* operation that is past getV1Base() has issued exactly one request of its
\* own, to baseUrl + "/v1" + "/...", and its outcome is the outcome of that
\* request: it fails only when that request failed.
C11_SpecFallback ==
  \A c \in Calls :
    UsesV1Base(c) /\ SpecUnusable /\ pc[c] # "awaitSpec" =>
      /\ log[c] # <<>>
      /\ LastOf(log[c]).kind = "main"
      /\ MainCount(log[c]) = 1
      /\ IsPrefix(baseUrl \o <<"/", "v1", "/">>, LastOf(log[c]).call.url)
      /\ Done(c) =>
           /\ LastOf(log[c]).resp.ok => outcome[c].kind \in {"value", "undefined"}
           /\ outcome[c].kind # "value" /\ outcome[c].kind # "undefined" =>
                outcome[c].kind = "error" /\ ~LastOf(log[c]).resp.ok

\* C11 witness: after the spec fetch was refused, a later me() call sent
\* GET {baseUrl}/v1/me without a spec fetch and resolved.
C11_Witness ==
  \E c \in Calls :
    /\ opn[c] = "me" /\ Done(c) /\ nOps >= 2
    /\ specPromise.state = "rejected"
    /\ Kinds(log[c]) = <<"main">>
    /\ log[c][1].call.url = baseUrl \o <<"/", "v1", "/", "me">>
    /\ outcome[c].kind = "value"

\* The spec is loaded and its servers list is non-empty.
SpecHasServers ==
  /\ specPromise.state = "fulfilled"
  /\ specPromise.doc.hasServers
  /\ specPromise.doc.servers # <<>>

WithoutOneSlash(u) == IF LastOf(u) = "/" THEN SubSeq(u, 1, Len(u) - 1) ELSE u

\* C12 as stated: with the spec loaded and a non-empty servers list, the
\* request of a request()-built operation goes to exactly servers[0].url
\* (one trailing slash stripped) + path + query string.
C12_Original ==
  \A c \in Calls :
    opd[c].cls = "spec" /\ SpecHasServers /\ pc[c] # "awaitSpec" =>
      /\ log[c] # <<>>
      /\ LastOf(log[c]).kind = "main"
      /\ specPromise.doc.servers[1] # <<>> =>
           LastOf(log[c]).call.url =
             WithoutOneSlash(specPromise.doc.servers[1]) \o opd[c].path
               \o buildQuery(opd[c].query)
      /\ specPromise.doc.servers[1] = <<>> =>
           LastOf(log[c]).call.url = opd[c].path \o buildQuery(opd[c].query)

\* C12: with the spec loaded, a non-empty servers list and a non-empty first
\* server URL, the request of a request()-built operation goes to exactly
\* servers[0].url (one trailing slash stripped) + path + query string, the
\* path prefixed with "/" when it does not start with one; no other servers
\* entry and not baseUrl is used.
C12_SpecServerBase ==
  \A c \in Calls :
    opd[c].cls = "spec" /\ SpecHasServers /\ specPromise.doc.servers[1] # <<>>
      /\ pc[c] # "awaitSpec" =>
      /\ log[c] # <<>>
      /\ LastOf(log[c]).kind = "main"
      /\ MainCount(log[c]) = 1
      /\ LastOf(log[c]).call.url =
           WithoutOneSlash(specPromise.doc.servers[1])
             \o (IF opd[c].path[1] = "/" THEN opd[c].path ELSE <<"/">> \o opd[c].path)
             \o buildQuery(opd[c].query)

\* C12 witness: request("GET", "/search", {query: {q: "test"}}) with a spec
\* whose first server is https://tenant.example.com/v2/ went to
\* https://tenant.example.com/v2/search?q=test.
C12_Witness ==
  \E c \in Calls :
    /\ opn[c] = "request" /\ pc[c] = "awaitMain"
    /\ Len(specPromise.doc.servers) = 2
    /\ LastOf(log[c]).call.url =
         <<"https:", "/", "/", "tenant.example.com", "/", "v2", "/", "search",
           "?", "q", "=", "test">>

\* The requests of its own a call has issued (not the discovery fetches).
MainEntries(c) == {i \in 1..Len(log[c]) : log[c][i].kind = "main"}
EndsWith(u, tail) ==
  Len(tail) <= Len(u) /\ SubSeq(u, Len(u) - Len(tail) + 1, Len(u)) = tail

\* C13: the request auth.session(token) sends to /auth/session and
\* auth.signout(token) sends to /auth/signout carries Authorization:
\* "Bearer {token}" and no X-Api-Key header.
C13_BearerHeaders ==
  \A c \in Calls :
    opn[c] \in {"auth.session", "auth.signout"} =>
      \A i \in MainEntries(c) :
        /\ EndsWith(log[c][i].call.url,
                    IF opn[c] = "auth.session" THEN <<"/", "auth", "/", "session">>
                    ELSE <<"/", "auth", "/", "signout">>)
        /\ "Authorization" \in DOMAIN log[c][i].call.headers
        /\ log[c][i].call.headers["Authorization"] = "Bearer " \o opd[c].token
        /\ "X-Api-Key" \notin DOMAIN log[c][i].call.headers

\* C13 witness: auth.session("tok_2") sent its request with
\* Authorization: Bearer tok_2 after fetching the spec itself.
C13_Witness ==
  \E c \in Calls :
    /\ opn[c] = "auth.session" /\ Kinds(log[c]) = <<"spec", "main">>
    /\ log[c][2].call.headers["Authorization"] = "Bearer tok_2"
    /\ DOMAIN log[c][2].call.headers = {"Content-Type", "Authorization"}

\* The pieces of s between the occurrences of the token sep.
RECURSIVE SplitOn(_, _)
SplitOn(s, sep) ==
  IF \A i \in 1..Len(s) : s[i] # sep THEN <<s>>
  ELSE LET k == CHOOSE i \in 1..Len(s) : s[i] = sep /\ \A j \in 1..(i - 1) : s[j] # sep
       IN <<SubSeq(s, 1, k - 1)>> \o SplitOn(SubSeq(s, k + 1, Len(s)), sep)

\* The inverse of the form encoding of one token.
FormDecodeToken(ch) ==
  CASE ch = "+" -> " "
    [] ch = "%2F" -> "/"
    [] ch = "%3F" -> "?"
    [] ch = "%26" -> "&"
    [] ch = "%3D" -> "="
    [] OTHER -> ch
FormDecode(s) == [i \in 1..Len(s) |-> FormDecodeToken(s[i])]

\* The text a surviving scalar is sent as.
ScalarText(v) ==
  CASE v = Num(0) -> <<"0">>
    [] v = Bool(FALSE) -> <<"false">>
    [] v = Bool(TRUE) -> <<"true">>
    [] OTHER -> v.s

Survives(e) == e.v # Undefined /\ e.v # Str(<<>>)

\* The decoded key=value pairs of a query string "?k=v&k=v...".
PairsOf(q) ==
  LET parts == SplitOn(Tail(q), "&")
  IN [i \in 1..Len(parts) |->
        LET kv == SplitOn(parts[i], "=")
        IN IF Len(kv) = 2 THEN [k |-> FormDecode(kv[1]), text |-> FormDecode(kv[2])]
           ELSE [k |-> <<>>, text |-> <<>>]]

\* q is "" when no entry of ps survives, and otherwise "?" followed by one
\* "&"-separated key=value pair per surviving entry, in the order of ps.
IsQueryOf(q, ps) ==
  LET kept == SelectSeq(ps, Survives)
  IN IF kept = <<>> THEN q = <<>>
     ELSE /\ q # <<>>
          /\ q[1] = "?"
          /\ Len(PairsOf(q)) = Len(kept)
          /\ \A i \in 1..Len(kept) :
               /\ PairsOf(q)[i].k = kept[i].k
               /\ PairsOf(q)[i].text = ScalarText(kept[i].v)

\* The place of key k among the properties ps.
PlaceOf(k, ps) == CHOOSE m \in 1..Len(ps) : ps[m].k = k

\* Pair a comes before pair b in Object.entries order: array-index keys before
\* the other keys, array-index keys in ascending numeric order, the other
\* keys in insertion order.
EntriesBefore(a, b, ps) ==
  IF KeyIndex(a) >= 0 /\ KeyIndex(b) >= 0 THEN KeyIndex(a) < KeyIndex(b)
  ELSE IF KeyIndex(a) >= 0 THEN TRUE
  ELSE IF KeyIndex(b) >= 0 THEN FALSE
  ELSE PlaceOf(a, ps) < PlaceOf(b, ps)

\* q is "" when no entry of ps survives, and otherwise "?" followed by one
\* "&"-separated key=value pair per surviving entry, in Object.entries order.
IsQueryOfEntries(q, ps) ==
  LET kept == SelectSeq(ps, Survives)
  IN IF kept = <<>> THEN q = <<>>
     ELSE /\ q # <<>>
          /\ q[1] = "?"
          /\ Len(PairsOf(q)) = Len(kept)
          /\ \A i \in 1..Len(kept) :
               \E j \in 1..Len(kept) :
                 /\ PairsOf(q)[j].k = kept[i].k
                 /\ PairsOf(q)[j].text = ScalarText(kept[i].v)
          /\ \A i, j \in 1..Len(kept) :
               i < j => EntriesBefore(PairsOf(q)[i].k, PairsOf(q)[j].k, kept)

RecordsPath == <<"/", "v1", "/", "tables", "/", "products", "/", "records">>

QueryOf(c) ==
  SubSeq(log[c][1].call.url, Len(baseUrl \o RecordsPath) + 1, Len(log[c][1].call.url))

\* C14 as stated: for every query mapping, what buildQuery appends to the
\* URL is the empty string when no entry survives and otherwise "?" and the
\* "&"-joined (form-encoded) key=value pairs of the entries whose value is
\* neither undefined nor "", 0 and false included, in insertion order.
C14_Original ==
  \A c \in Calls :
    opn[c] = "tables.records.list" =>
      /\ Len(log[c]) = 1
      /\ IsPrefix(baseUrl \o RecordsPath, log[c][1].call.url)
      /\ IsQueryOf(QueryOf(c), opd[c].query)

\* C14: as above, with the pairs in the order of Object.entries: the keys
\* that are array indices first, in ascending numeric order, then the other
\* keys in insertion order.
C14_QueryBuilder ==
  \A c \in Calls :
    opn[c] = "tables.records.list" =>
      /\ Len(log[c]) = 1
      /\ IsPrefix(baseUrl \o RecordsPath, log[c][1].call.url)
      /\ IsQueryOfEntries(QueryOf(c), opd[c].query)

\* C14 witness: {sort: "a &b", 2: 0} yields "?2=0&sort=a+%26b".
C14_Witness ==
  \E c \in Calls :
    /\ opn[c] = "tables.records.list" /\ Len(log[c]) = 1
    /\ opd[c].query = <<P("sort", Str(<<"a", " ", "&", "b">>)), P("2", Num(0))>>
    /\ log[c][1].call.url =
         baseUrl \o RecordsPath
           \o <<"?", "2", "=", "0", "&", "sort", "=", "a", "+", "%26", "b">>

\* The call has finished on a successful response to the request that
\* decides its result: its own request, or the capabilities fetch of
\* capabilities() itself.
FinishedOnSuccess(c) ==
  /\ Done(c) /\ log[c] # <<>>
  /\ LastOf(log[c]).kind = "main" \/ opd[c].cls = "caps"
  /\ LastOf(log[c]).resp.kind = "http" /\ LastOf(log[c]).resp.ok

\* C15: an operation whose request was answered 204 resolves with undefined
\* (the body is not parsed), and one answered with any other success status
\* resolves with the parsed JSON body.
C15_NoContent ==
  \A c \in Calls :
    FinishedOnSuccess(c) =>
      /\ LastOf(log[c]).resp.status = 204 => outcome[c].kind = "undefined"
      /\ LastOf(log[c]).resp.status # 204 => outcome[c].kind = "value"

\* C15 witness: tables(slug).records.delete(id) answered 204 resolved with
\* undefined.
C15_Witness ==
  \E c \in Calls :
    /\ opn[c] = "tables.records.delete" /\ Done(c)
    /\ LastOf(log[c]).resp.status = 204
    /\ outcome[c].kind = "undefined"

\* A step of a V1 operation: its call, or the arrival of its response.
V1Step ==
  \E c \in Calls :
    /\ opd'[c].cls = "v1"
    /\ \/ nOps' = nOps + 1
       \/ opd[c].cls = "v1" /\ pc[c] = "awaitMain" /\ pc'[c] = "done"

\* The only request of a V1 operation goes to baseUrl + its /v1/... path
\* (+ query) with the configured X-Api-Key.
V1RequestOnly ==
  \A c \in Calls :
    opd[c].cls = "v1" =>
      /\ Kinds(log[c]) = <<"main">>
      /\ IsPrefix(baseUrl \o <<"/", "v1", "/">>, log[c][1].call.url)
      /\ log[c][1].call.url = baseUrl \o opd[c].path \o buildQuery(opd[c].query)
      /\ "X-Api-Key" \in DOMAIN log[c][1].call.headers
      /\ log[c][1].call.headers["X-Api-Key"] = "aur_test_abc123"

\* C16: every V1 operation issues exactly one request, to baseUrl + its
\* /v1/... path with X-Api-Key, and no step of a V1 operation issues a
\* capabilities or spec fetch or changes either cache, whatever the caches
\* hold.
C16_V1Independent ==
  /\ []V1RequestOnly
  /\ [][V1Step => UNCHANGED <<caps, specPromise, capsFetches, specFetches>>]_vars

\* C16 witness: with capabilities cached and the spec fetch failed,
\* tables.list sent GET {baseUrl}/v1/tables and nothing else.
C16_Witness ==
  \E c \in Calls :
    /\ opn[c] = "tables.list" /\ Done(c)
    /\ caps.id = 1 /\ specPromise.state = "rejected"
    /\ Len(log[c]) = 1
    /\ log[c][1].call.url = baseUrl \o <<"/", "v1", "/", "tables">>
    /\ capsFetches = 1 /\ specFetches = 1

\* The requests a call has issued, by position in its log.
Requests(c) == 1..Len(log[c])
SentHeader(c, i, name, value) ==
  /\ name \in DOMAIN log[c][i].call.headers
  /\ log[c][i].call.headers[name] = value

\* C17 as stated: every request carries Content-Type: application/json, and
\* every request of a non-bearer operation carries X-Api-Key equal to the
\* configured key, whatever headers the caller of request() supplies.
C17_Original ==
  \A c \in Calls : \A i \in Requests(c) :
    /\ SentHeader(c, i, "Content-Type", "application/json")
    /\ opd[c].cls # "bearer" => SentHeader(c, i, "X-Api-Key", "aur_test_abc123")

\* The header the caller of request() supplied under this name, if any,
\* else the default.
CallerOr(c, i, name, default) ==
  IF log[c][i].kind = "main" /\ opd[c].cls = "spec" /\ name \in DOMAIN opd[c].headers
  THEN opd[c].headers[name]
  ELSE default

\* C17: every request carries Content-Type, and every request of a
\* non-bearer operation carries X-Api-Key; the values are application/json
\* and the configured key, except that a header of that exact name among the
\* headers passed to client.request() is sent in its place.  The headers of
\* every other operation, me({userId}) and webhooks.inbound included, are the
\* defaults plus the added ones.
C17_DefaultHeaders ==
  \A c \in Calls : \A i \in Requests(c) :
    /\ SentHeader(c, i, "Content-Type", CallerOr(c, i, "Content-Type", "application/json"))
    /\ opd[c].cls # "bearer" =>
         SentHeader(c, i, "X-Api-Key", CallerOr(c, i, "X-Api-Key", "aur_test_abc123"))
    /\ opn[c] # "request" =>
         /\ SentHeader(c, i, "Content-Type", "application/json")
         /\ opd[c].cls # "bearer" => SentHeader(c, i, "X-Api-Key", "aur_test_abc123")

\* C17 witness: request("GET", "/me", {headers: {"X-Api-Key": "aur_other_key"}})
\* sent X-Api-Key: aur_other_key, after a spec fetch that carried the
\* configured key.
C17_Witness ==
  \E c \in Calls :
    /\ opn[c] = "request" /\ Kinds(log[c]) = <<"spec", "main">>
    /\ log[c][1].call.headers["X-Api-Key"] = "aur_test_abc123"
    /\ log[c][2].call.headers["X-Api-Key"] = "aur_other_key"
    /\ log[c][2].call.headers["Content-Type"] = "application/json"

\* C18 as stated: each cache cell is written at most once: once the
\* capability cache holds an object no step replaces it, the promise in the
\* spec cell is never replaced by another, and a spec document in the cell is
\* that of the first spec fetch and stays.
C18_CachesWrittenOnce ==
  [][/\ caps.id # 0 => caps' = caps
     /\ specPromise.state # "none" => specPromise'.n = specPromise.n
     /\ specPromise.state = "fulfilled" => specPromise' = specPromise /\ specPromise.n = 1
    ]_vars

\* The calls that need the capabilities.
NeedsCaps(c) == opd[c].cls \in {"caps", "guarded"}
HasCapsFetch(c) == log[c] # <<>> /\ log[c][1].kind = "caps"

\* C19: while the capability cache is empty, every capabilities() and every
\* guarded call has issued a GET /v1/capabilities of its own, no two calls
\* share one, and a call whose fetch succeeded goes on with (capabilities():
\* resolves with) the object of its own fetch.
C19_NoSharedCapabilitiesFetch ==
  /\ caps.id = 0 => \A c \in Calls : NeedsCaps(c) => HasCapsFetch(c)
  /\ \A c, d \in Calls :
       c # d /\ HasCapsFetch(c) /\ HasCapsFetch(d) => log[c][1].n # log[d][1].n
  /\ \A c \in Calls :
       HasCapsFetch(c) =>
         /\ log[c][1].call.url = CapabilitiesUrl
         /\ log[c][1].resp.ok =>
              /\ capsOf[c].id = log[c][1].n
              /\ Done(c) /\ opd[c].cls = "caps" => outcome[c].caps = capsOf[c]

\* C19 witness: two overlapping callers, both started on an empty cache:
\* capabilities() resolved with the object of fetch 1 (tenant acme) and
\* site.search went on with the object of its own fetch 2 (tenant b/c).
C19_Witness ==
  \E c, d \in Calls :
    /\ opn[c] = "capabilities" /\ Done(c) /\ outcome[c].caps.id = 1
    /\ outcome[c].caps.tenantSlug = <<"acme">>
    /\ opn[d] = "site.search" /\ pc[d] = "awaitMain"
    /\ log[d][1].n = 2 /\ capsOf[d].id = 2 /\ capsOf[d].tenantSlug = <<"b", "/", "c">>
    /\ capsFetches = 2

\* C20: with one caller that awaits each call, a guarded call fetches the
\* capabilities only when the cache is empty, and every guarded call made on
\* a filled cache is gated by the cached flags anew: with its feature
\* disabled it has failed with the not-available error without any request,
\* with its feature enabled its only request is the guarded one.
C20_GateOnEveryCall ==
  \A c \in Calls :
    IsGuarded(c) =>
      /\ HasCapsFetch(c) /\ caps.id # 0 => caps.id = log[c][1].n
      /\ ~HasCapsFetch(c) =>
           /\ caps.id # 0 /\ capsOf[c] = caps
           /\ AtGate(c) => log[c] = <<>> /\ outcome[c].kind = "none"
           /\ ~AtGate(c) /\ caps.features[FeatureOf(opn[c])] # "true" =>
                /\ Done(c) /\ log[c] = <<>>
                /\ outcome[c].kind = "error"
                /\ outcome[c].msg = NotAvailableMessage(opn[c])
           /\ ~AtGate(c) /\ caps.features[FeatureOf(opn[c])] = "true" =>
                /\ Kinds(log[c]) = <<"main">>
                /\ log[c][1].call.url # CapabilitiesUrl

\* C20 witness: the third call on a client, holmes.infer on a cache filled by
\* the first call with holmes absent, failed without a request.
C20_Witness ==
  \E c \in Calls :
    /\ opn[c] = "holmes.infer" /\ Done(c) /\ log[c] = <<>>
    /\ nOps = 3 /\ capsFetches = 1 /\ caps.id = 1
    /\ caps.features["holmes"] = "absent"
    /\ outcome[c].kind = "error"

\* The step changes the caller's view of call slot c.
Moves(c) ==
  \/ pc'[c] # pc[c] \/ opd'[c] # opd[c] \/ log'[c] # log[c] \/ outcome'[c] # outcome[c]

\* C21: a step of capabilities() or of a guarded operation (a failed
\* capabilities fetch included) leaves the spec cell and the count of spec
\* fetches unchanged, and a step of getSpec() or of a spec-driven or bearer
\* operation (a failed spec fetch included) leaves the capability cache and
\* the count of capabilities fetches unchanged.
C21_CachesIndependent ==
  [][/\ (\E c \in Calls : Moves(c) /\ opd'[c].cls \in {"caps", "guarded"}) =>
          UNCHANGED <<specPromise, specFetches>>
     /\ (\E c \in Calls : Moves(c) /\ opd'[c].cls \in {"getSpec", "spec", "bearer"}) =>
          UNCHANGED <<caps, capsFetches>>
     /\ caps' # caps \/ capsFetches' # capsFetches => UNCHANGED <<specPromise, specFetches>>
     /\ specPromise' # specPromise \/ specFetches' # specFetches =>
          UNCHANGED <<caps, capsFetches>>
    ]_vars

\* C21 witness: a guarded call whose capabilities fetch was refused, on a
\* client whose spec cell holds the loaded document.
C21_Witness ==
  \E c \in Calls :
    /\ IsGuarded(c) /\ Done(c) /\ Kinds(log[c]) = <<"caps">>
    /\ ~log[c][1].resp.ok /\ caps.id = 0
    /\ specPromise.state = "fulfilled" /\ specFetches = 1

\* C22 as stated: in both transports a body is sent, as the JSON of the
\* value the caller supplied, whenever the caller supplied one (0, false and
\* "" included), and no body is sent when the caller supplied none
\* (undefined or null).
C22_BodySentWhenSupplied ==
  \A c \in Calls : \A i \in MainEntries(c) :
    /\ opd[c].body \notin {Undefined, JsNull} =>
         log[c][i].call.body.sent /\ log[c][i].call.body.v = opd[c].body
    /\ opd[c].body \in {Undefined, JsNull} => ~log[c][i].call.body.sent

\* C23 as stated: for every baseUrl passed to the constructor, also one that
\* ends in two or more "/", the stored baseUrl does not end in "/", and no
\* operation changes it.
C23_BaseUrlNoTrailingSlash ==
  /\ [](LastOf(baseUrl) # "/")
  /\ [][baseUrl' = baseUrl]_vars

\* The base getV1Base() resolved for the requests of the client.
ResolvedBase ==
  IF SpecUnusable THEN baseUrl \o <<"/", "v1">>
  ELSE WithoutOneSlash(specPromise.doc.servers[1])

\* C24 as stated: in every URL built by client.request() and by the bearer
\* variant, exactly one "/" stands between the resolved base and the first
\* path segment, whether the caller's path starts with no, one or several
\* "/".
C24_OneSlashBeforePath ==
  \A c \in Calls : \A i \in MainEntries(c) :
    UsesV1Base(c) =>
      /\ IsPrefix(ResolvedBase \o <<"/">>, log[c][i].call.url)
      /\ Len(log[c][i].call.url) > Len(ResolvedBase) + 1
      /\ log[c][i].call.url[Len(ResolvedBase) + 2] # "/"

Running(c) == pc[c] \notin {"idle", "done"}

\* What a running call waits for: the answer to the request it issued last,
\* or this.specPromise, in flight or settled and about to resume the call;
\* a guarded call that holds its capabilities waits for nothing and resumes.
WaitsOnOwnOrSpec(c) ==
  \/ /\ pc[c] \in {"awaitCaps", "awaitMain"}
     /\ log[c] # <<>>
     /\ log[c][Len(log[c])].resp = Pending
     /\ log[c][Len(log[c])].kind = (IF pc[c] = "awaitCaps" THEN "caps" ELSE "main")
  \/ /\ AtGate(c)
     /\ GotCaps(c)
     /\ \A i \in 1..Len(log[c]) : log[c][i].kind = "caps" /\ log[c][i].resp # Pending
  \/ /\ pc[c] = "awaitSpec"
     /\ specPromise.state \in {"pending", "fulfilled", "rejected"}
     /\ \A i \in 1..Len(log[c]) : log[c][i].kind = "spec"

DiscoveryCount(c) == Cardinality({ i \in 1..Len(log[c]) : log[c][i].kind \in {"caps", "spec"} })

\* C25: on a network that answers every request, every invoked operation
\* eventually completes, with one outcome that then stays; it issues at most
\* one discovery fetch and one request of its own; while it runs it waits
\* only for its own last request or for the shared spec fetch.
C25_OperationsComplete ==
  /\ \A c \in Calls : Running(c) ~> (Done(c) /\ outcome[c].kind # "none")
  /\ [](\A c \in Calls :
          /\ Running(c) => outcome[c].kind = "none" /\ WaitsOnOwnOrSpec(c)
          /\ Done(c) => outcome[c].kind # "none"
          /\ DiscoveryCount(c) <= 1
          /\ MainCount(log[c]) <= 1)
  /\ [][\A c \in Calls :
          (Done(c) /\ Done(c)' /\ nOps' = nOps) =>
             outcome'[c] = outcome[c] /\ log'[c] = log[c]]_vars

\* A spec-driven call completed with a value after its spec fetch and its
\* one request, while an overlapping call that issued no spec fetch of its own
\* waits for its request.
C25_Witness ==
  \E c, x \in Calls :
    /\ c # x
    /\ Done(c) /\ opd[c].cls = "spec" /\ outcome[c].kind = "value"
    /\ Len(log[c]) = 2 /\ log[c][1].kind = "spec" /\ log[c][2].kind = "main"
    /\ Running(x) /\ opd[x].cls = "spec" /\ Len(log[x]) = 1 /\ log[x][1].kind = "main"

SpecEntries(c) == { i \in 1..Len(log[c]) : log[c][i].kind = "spec" }

\* C26: under every interleaving of getSpec() calls and spec-driven
\* operations at most one spec fetch is issued, the settled promise is never
\* replaced, and every caller observes the outcome of that one fetch:
\* getSpec() settles as the promise did, a spec-driven request goes to the
\* base that promise resolves to.
C26_SpecSingleFlight ==
  /\ [](/\ specFetches <= 1
        /\ \A c \in Calls : \A i \in SpecEntries(c) : log[c][i].n = 1
        /\ \A c, x \in Calls : (SpecEntries(c) # {} /\ SpecEntries(x) # {}) => c = x
        /\ \A c \in Calls :
             /\ (Done(c) /\ opd[c].cls = "getSpec") =>
                  /\ specPromise.state \in {"fulfilled", "rejected"}
                  /\ specPromise.state = "fulfilled" =>
                       outcome[c].kind = "value" /\ outcome[c].spec = specPromise.doc
                  /\ specPromise.state = "rejected" =>
                       outcome[c].kind = "error" /\ outcome[c].msg = specPromise.msg
             /\ opd[c].cls = "spec" =>
                  \A i \in MainEntries(c) :
                    /\ specPromise.state \in {"fulfilled", "rejected"}
                    /\ IsPrefix(ResolvedBase \o <<"/">>, log[c][i].call.url))
  /\ [][specPromise.state \in {"fulfilled", "rejected"} => specPromise' = specPromise]_vars

\* The one spec fetch was answered while two calls awaited it: the call that
\* issued it and a call that joined it without a fetch of its own.
C26_Witness ==
  \E c, x \in Calls :
    /\ c # x
    /\ specPromise.state = "fulfilled"
    /\ pc[c] = "awaitSpec" /\ SpecEntries(c) # {}
    /\ pc[x] = "awaitSpec" /\ log[x] = <<>>

\* The call's GET /v1/capabilities was answered with a failure.
CapsFetchFailed(c) ==
  /\ HasCapsFetch(c)
  /\ log[c][1].resp # Pending
  /\ ~(log[c][1].resp.kind = "http" /\ log[c][1].resp.ok)

\* The Error request() throws for a failed fetch: the network error itself,
\* or "Aurora API {status}: {detail}".
IsTransportError(o, r) ==
  /\ o.kind = "error"
  /\ IF r.kind = "net" THEN o.msg = r.text
     ELSE o.msg \in {MessageAsAmended(r), MessageForText(r)}

\* C27: after a failed GET /v1/capabilities the cache is still empty, the
\* calling operation has failed with the transport error of that fetch (a
\* guarded one not with its not-available error) and has issued nothing
\* else, and the next capabilities() or guarded call issues a new
\* GET /v1/capabilities.
C27_FailedCapabilitiesNotCached ==
  /\ [](\A c \in Calls :
          CapsFetchFailed(c) =>
            /\ caps = NoCaps
            /\ Done(c)
            /\ Len(log[c]) = 1
            /\ IsTransportError(outcome[c], log[c][1].resp)
            /\ IsGuarded(c) => outcome[c].msg # notAvailable(opd[c].display))
  /\ [][\A c \in Calls :
          (CapsFetchFailed(c) /\ nOps' = nOps + 1 /\ opd'[c].cls \in {"caps", "guarded"}) =>
             /\ capsFetches' = capsFetches + 1
             /\ log'[c] # <<>>
             /\ log'[c][1].kind = "caps"
             /\ log'[c][1].n = capsFetches'
             /\ log'[c][1].resp = Pending
             /\ log'[c][1].call.url = CapabilitiesUrl]_vars

\* A guarded call failed on its refused capabilities fetch, the second fetch
\* of the client, the first one having failed as well.
C27_Witness ==
  \E c \in Calls :
    /\ IsGuarded(c)
    /\ CapsFetchFailed(c)
    /\ log[c][1].n = 2
    /\ log[c][1].resp.kind = "http"
    /\ caps = NoCaps
    /\ outcome[c].kind = "error"

IsBearer(c) == opd[c].cls = "bearer"

\* C28: a bearer operation issues at most two requests, a spec fetch (only
\* when the spec cell was empty when it was called; to specUrl, with
\* X-Api-Key) and then one bearer request; the bearer request is sent only
\* once the spec promise settled; no request of the operation other than the
\* one to specUrl carries X-Api-Key; a finished operation has sent exactly
\* one bearer request.
C28_BearerRequestOrder ==
  /\ [](\A c \in Calls :
          IsBearer(c) =>
            /\ Len(log[c]) <= 2
            /\ MainCount(log[c]) <= 1
            /\ \A i \in SpecEntries(c) :
                 /\ i = 1
                 /\ log[c][i].call.url = specUrl
                 /\ SentHeader(c, i, "X-Api-Key", ApiKey)
                 /\ specPromise.n = log[c][i].n
            /\ \A i \in MainEntries(c) :
                 /\ i = Len(log[c])
                 /\ specPromise.state \in {"fulfilled", "rejected"}
                 /\ \A j \in SpecEntries(c) : log[c][j].resp # Pending
                 /\ "X-Api-Key" \notin DOMAIN log[c][i].call.headers
                 /\ SentHeader(c, i, "Authorization", "Bearer " \o opd[c].token)
            /\ \A i \in Requests(c) :
                 "X-Api-Key" \in DOMAIN log[c][i].call.headers => log[c][i].call.url = specUrl
            /\ Done(c) => MainCount(log[c]) = 1)
  /\ [][\A c \in Calls :
          (nOps' = nOps + 1 /\ opd'[c].cls = "bearer" /\ pc'[c] # "idle") =>
             (specPromise.state = "none" <=> (log'[c] # <<>> /\ log'[c][1].kind = "spec"))]_vars

\* auth.session(token) finished after two requests: the spec fetch, refused,
\* and then its bearer request.
C28_Witness ==
  \E c \in Calls :
    /\ IsBearer(c) /\ Done(c)
    /\ Len(log[c]) = 2
    /\ log[c][1].kind = "spec" /\ ~log[c][1].resp.ok
    /\ log[c][2].kind = "main"
    /\ outcome[c].kind = "value"

\* The slug a guarded request addresses: the path segment that follows
\* {baseUrl}/api/tenants/, decoded.
TenantPrefix == baseUrl \o <<"/", "api", "/", "tenants", "/">>
SlugOf(url) ==
  LET rest == SubSeq(url, Len(TenantPrefix) + 1, Len(url))
      k == CHOOSE k \in 1..Len(rest) :
             rest[k] = "/" /\ \A j \in 1..(k - 1) : rest[j] # "/"
  IN Decode(SubSeq(rest, 1, k - 1))

\* C29 as stated: under every interleaving of guarded operations and every
\* sequence of capabilities responses, no two guarded requests of one client
\* carry different slugs in /api/tenants/{slug}/...
C29_OneSlugPerClient ==
  \A c, x \in Calls :
    (IsGuarded(c) /\ IsGuarded(x)) =>
      \A i \in MainEntries(c) : \A j \in MainEntries(x) :
        SlugOf(log[c][i].call.url) = SlugOf(log[x][j].call.url)

====
